---- MODULE Spec2Model ----
(***************************************************************************)
(* TinyGraphDB (src/src/index.js): a disk-backed in-memory property graph. *)
(*                                                                         *)
(* JavaScript values are tagged records [t, v]; objects are sequences of   *)
(* <<key, value>> pairs in insertion order; a Map is the sequence of its   *)
(* entries in insertion order and a Set the sequence of its elements.      *)
(* Strings are sequences of one-character strings.  An id, the string      *)
(* `${Date.now()}-${idCounter}`, is the pair <<Date.now(), idCounter>>.    *)
(***************************************************************************)
EXTENDS Integers, Sequences, FiniteSets, TLC

VARIABLES
    nodes,          \* this.nodes: Map id -> {id, name, metadata}
    relations,      \* this.relations: Map id -> {id, name, fromNodeId, toNodeId, metadata}
    nodeRelations,  \* this.nodeRelations: Map nodeId -> Set of relation ids
    idCounter,      \* this.idCounter
    now,            \* the reading of Date.now()
    disk,           \* the content of the file at this.filePath
    call,           \* the last call of the public interface and its outcome
    prev            \* the store and the file as they were when that call began

vars == <<nodes, relations, nodeRelations, idCounter, now, disk, call, prev>>

store == [nodes |-> nodes, relations |-> relations,
          nodeRelations |-> nodeRelations, disk |-> disk]

----------------------------------------------------------------------------
(* Bounds of the model *)

MaxId == 4

----------------------------------------------------------------------------
(* JavaScript values *)

Undefined == [t |-> "undefined", v |-> 0]
Null == [t |-> "null", v |-> 0]
Infinity == [t |-> "infinity", v |-> 0]
Num(n) == [t |-> "number", v |-> n]
Bool(b) == [t |-> "boolean", v |-> b]
Str(s) == [t |-> "string", v |-> s]
Arr(xs) == [t |-> "array", v |-> xs]
Obj(pairs) == [t |-> "object", v |-> pairs]

TypeOf(x) ==
    CASE x.t \in {"null", "array", "object", "regexp"} -> "object"
      [] x.t \in {"number", "infinity"} -> "number"
      [] OTHER -> x.t

IsArray(x) == x.t = "array"

\* the value of a condition: false, 0, "", null, undefined and NaN are falsy
Truthy(x) ==
    CASE x.t \in {"undefined", "null", "NaN"} -> FALSE
      [] x.t = "boolean" -> x.v
      [] x.t = "number" -> x.v # 0
      [] x.t = "string" -> x.v # <<>>
      [] OTHER -> TRUE

\* obj[key] on an object value: undefined when the key is absent
Get(obj, key) ==
    IF obj.t = "object" /\ \E i \in 1..Len(obj.v) : obj.v[i][1] = key
    THEN obj.v[CHOOSE i \in 1..Len(obj.v) : obj.v[i][1] = key][2]
    ELSE Undefined

Keys(obj) == IF obj.t = "object" THEN {obj.v[i][1] : i \in 1..Len(obj.v)} ELSE {}

\* { ...a, ...b }: a's keys keep their place, b's values win, b's new keys follow
RECURSIVE SpreadInto(_, _)
SpreadInto(pairs, more) ==
    IF more = <<>> THEN pairs
    ELSE LET kv == Head(more)
             at == {i \in 1..Len(pairs) : pairs[i][1] = kv[1]}
             next == IF at = {} THEN Append(pairs, kv)
                     ELSE [pairs EXCEPT ![CHOOSE i \in at : TRUE] = kv]
         IN SpreadInto(next, Tail(more))

\* the new metadata taking the place of the old instead of being merged into it
Spread_replaces(a, b) == b

Spread(a, b) ==
    Obj(SpreadInto(IF a.t = "object" THEN a.v ELSE <<>>,
                   IF b.t = "object" THEN b.v ELSE <<>>))

\* String.prototype.trim
IsSpace(c) == c \in {" ", "\t", "\n"}

RECURSIVE TrimLeft(_)
TrimLeft(s) == IF s # <<>> /\ IsSpace(Head(s)) THEN TrimLeft(Tail(s)) ELSE s

RECURSIVE TrimRight(_)
TrimRight(s) ==
    IF s # <<>> /\ IsSpace(s[Len(s)]) THEN TrimRight(SubSeq(s, 1, Len(s) - 1)) ELSE s

Trim(s) == TrimRight(TrimLeft(s))

\* a string literal as the characters of a string value
Chars(s) ==
    CASE s = "undefined" -> <<"u", "n", "d", "e", "f", "i", "n", "e", "d">>
      [] s = "null" -> <<"n", "u", "l", "l">>
      [] s = "true" -> <<"t", "r", "u", "e">>
      [] s = "false" -> <<"f", "a", "l", "s", "e">>
      [] s = "NaN" -> <<"N", "a", "N">>
      [] s = "Infinity" -> <<"I", "n", "f", "i", "n", "i", "t", "y">>
      [] s = "[object Object]" ->
            <<"[", "o", "b", "j", "e", "c", "t", " ", "O", "b", "j", "e", "c", "t", "]">>

UpperCase ==
    <<"A", "B", "C", "D", "E", "F", "G", "H", "I", "J", "K", "L", "M",
      "N", "O", "P", "Q", "R", "S", "T", "U", "V", "W", "X", "Y", "Z">>

LowerCase ==
    <<"a", "b", "c", "d", "e", "f", "g", "h", "i", "j", "k", "l", "m",
      "n", "o", "p", "q", "r", "s", "t", "u", "v", "w", "x", "y", "z">>

\* s.toLowerCase(), s without its upper case letters
\* s.toLowerCase(), on the letters A to Z
toLowerCase(s) ==
    [i \in 1..Len(s) |->
        IF \E k \in 1..26 : UpperCase[k] = s[i]
        THEN LowerCase[CHOOSE k \in 1..26 : UpperCase[k] = s[i]]
        ELSE s[i]]

\* s.includes(part), s.startsWith(part), s.endsWith(part)
StringIncludes(s, part) ==
    \E i \in 0..(Len(s) - Len(part)) : SubSeq(s, i + 1, i + Len(part)) = part

startsWith(s, part) == Len(part) <= Len(s) /\ SubSeq(s, 1, Len(part)) = part

endsWith(s, part) ==
    Len(part) <= Len(s) /\ SubSeq(s, Len(s) - Len(part) + 1, Len(s)) = part

\* the decimal digits of a natural number, and the text of an integer
RECURSIVE Digits(_)
Digits(n) ==
    LET digit == <<"0", "1", "2", "3", "4", "5", "6", "7", "8", "9">>[(n % 10) + 1]
    IN IF n < 10 THEN <<digit>> ELSE Append(Digits(n \div 10), digit)

IntegerText(n) == IF n < 0 THEN <<"-">> \o Digits(-n) ELSE Digits(n)

\* the elements of an array of numbers, joined by commas
RECURSIVE Join(_)
Join(xs) ==
    IF xs = <<>> THEN <<>>
    ELSE IF Len(xs) = 1 THEN IntegerText(xs[1])
    ELSE IntegerText(xs[1]) \o <<",">> \o Join(Tail(xs))

\* String(x), the characters of the string
String(x) ==
    CASE x.t = "string" -> x.v
      [] x.t = "number" -> IntegerText(x.v)
      [] x.t = "boolean" -> IF x.v THEN Chars("true") ELSE Chars("false")
      [] x.t = "array" -> Join(x.v)
      [] x.t = "object" -> Chars("[object Object]")
      [] x.t = "infinity" -> Chars("Infinity")
      [] OTHER -> Chars(x.t)

----------------------------------------------------------------------------
(* JSON.stringify followed by JSON.parse *)

\* a property whose value is undefined is left out of the text; Infinity is
\* written as null
RECURSIVE JsonPairs(_)
RECURSIVE ToJSON(_)
ToJSON(x) ==
    CASE x.t = "object" -> Obj(JsonPairs(x.v))
      [] x.t = "infinity" -> Null
      [] OTHER -> x

JsonPairs(pairs) ==
    IF pairs = <<>> THEN <<>>
    ELSE LET kv == Head(pairs)
         IN IF kv[2].t = "undefined" THEN JsonPairs(Tail(pairs))
            ELSE <<(<<kv[1], ToJSON(kv[2])>>)>> \o JsonPairs(Tail(pairs))

_clone(obj) == ToJSON(obj)

----------------------------------------------------------------------------
(* Map and Set *)

MapHas(m, id) == \E i \in 1..Len(m) : m[i].id = id

MapGet(m, id) == m[CHOOSE i \in 1..Len(m) : m[i].id = id]

MapSet(m, e) ==
    IF MapHas(m, e.id)
    THEN [i \in 1..Len(m) |-> IF m[i].id = e.id THEN e ELSE m[i]]
    ELSE Append(m, e)

MapDelete(m, id) == SelectSeq(m, LAMBDA e : e.id # id)

MapKeys(m) == {m[i].id : i \in 1..Len(m)}

SetAdd(s, x) == IF \E i \in 1..Len(s) : s[i] = x THEN s ELSE Append(s, x)

SetDelete(s, x) == SelectSeq(s, LAMBDA y : y # x)

SetOf(s) == {s[i] : i \in 1..Len(s)}

\* this.nodeRelations.get(nodeId) || new Set()
RelsOf(index, nodeId) == IF MapHas(index, nodeId) THEN MapGet(index, nodeId).rels ELSE <<>>

\* this.nodeRelations.get(nodeId).add(relationId)
IndexAdd(index, nodeId, relId) ==
    [i \in 1..Len(index) |->
        IF index[i].id = nodeId
        THEN [index[i] EXCEPT !.rels = SetAdd(@, relId)]
        ELSE index[i]]

\* deleteRelation with the two deletes from the index left out
IndexDelete_skipped(index, nodeId, relId) == index

\* this.nodeRelations.get(nodeId)?.delete(relationId)
IndexDelete(index, nodeId, relId) ==
    [i \in 1..Len(index) |->
        IF index[i].id = nodeId
        THEN [index[i] EXCEPT !.rels = SetDelete(@, relId)]
        ELSE index[i]]

\* the index loop adding each relation to its source node only
RECURSIVE PopulateLoop_fromOnly(_, _)
PopulateLoop_fromOnly(index, rs) ==
    IF rs = <<>> THEN [threw |-> FALSE, v |-> index]
    ELSE LET relation == Head(rs)
         IN IF ~MapHas(index, relation.fromNodeId)
            THEN [threw |-> TRUE, v |-> index]
            ELSE PopulateLoop_fromOnly(IndexAdd(index, relation.fromNodeId, relation.id),
                                       Tail(rs))

\* rebuildNodeRelationsIndex: an empty Set for every node, then every relation's
\* id added under both of its ends; the get of a missing end is undefined, and
\* the call of add on it throws
RECURSIVE PopulateLoop(_, _)
PopulateLoop(index, rs) ==
    IF rs = <<>> THEN [threw |-> FALSE, v |-> index]
    ELSE LET relation == Head(rs)
         IN IF ~MapHas(index, relation.fromNodeId)
            THEN [threw |-> TRUE, v |-> index]
            ELSE LET one == IndexAdd(index, relation.fromNodeId, relation.id)
                 IN IF ~MapHas(one, relation.toNodeId)
                    THEN [threw |-> TRUE, v |-> one]
                    ELSE PopulateLoop(IndexAdd(one, relation.toNodeId, relation.id), Tail(rs))

rebuildNodeRelationsIndex(ns, rs) ==
    PopulateLoop([i \in 1..Len(ns) |-> [id |-> ns[i].id, rels |-> <<>>]], rs)

----------------------------------------------------------------------------
(* Persistence *)

NoFile == [nodes |-> <<>>, relations |-> <<>>, exists |-> FALSE]

JsonEntity(e) == [k \in DOMAIN e |->
                    IF k \in {"name", "metadata"} THEN ToJSON(e[k]) ELSE e[k]]

JsonEntities(m) == [i \in 1..Len(m) |-> JsonEntity(m[i])]

\* what flushToDisk writes: the values of the two Maps, as JSON
flushToDisk(ns, rs) ==
    [nodes |-> JsonEntities(ns), relations |-> JsonEntities(rs), exists |-> TRUE]

generateId == <<now, idCounter>>

----------------------------------------------------------------------------
(* The record of a call *)

Returned(op, args, ret) == [op |-> op, args |-> args, outcome |-> "return", ret |-> ret]

Threw(op, args, msg) == [op |-> op, args |-> args, outcome |-> "throw", ret |-> msg]

NoCall == [op |-> "new", args |-> <<>>, outcome |-> "return", ret |-> Undefined]

----------------------------------------------------------------------------
Init ==
    /\ nodes = <<>>
    /\ relations = <<>>
    /\ nodeRelations = <<>>
    /\ idCounter = 0
    /\ now = 0
    /\ disk = NoFile
    /\ call = NoCall
    /\ prev = [nodes |-> <<>>, relations |-> <<>>, nodeRelations |-> <<>>, disk |-> NoFile]

addNode(name, metadata, flush) ==
    LET args == <<name, metadata, Bool(flush)>>
        md == IF metadata = Undefined THEN Obj(<<>>) ELSE metadata
    IN
    /\ prev' = store
    /\ IF TypeOf(name) # "string" \/ Trim(name.v) = <<>>
       THEN /\ call' = Threw("addNode", args, "Node name must be a non-empty string")
            /\ UNCHANGED <<nodes, relations, nodeRelations, idCounter, now, disk>>
       ELSE IF TypeOf(md) # "object" \/ md = Null
       THEN /\ call' = Threw("addNode", args, "Metadata must be an object")
            /\ UNCHANGED <<nodes, relations, nodeRelations, idCounter, now, disk>>
       ELSE LET node == [id |-> generateId, name |-> name, metadata |-> _clone(md)]
            IN /\ idCounter' = idCounter + 1
               /\ nodes' = MapSet(nodes, node)
               /\ nodeRelations' = MapSet(nodeRelations, [id |-> node.id, rels |-> <<>>])
               /\ disk' = IF flush THEN flushToDisk(nodes', relations) ELSE disk
               /\ call' = Returned("addNode", args, node)
               /\ UNCHANGED <<relations, now>>

\* addRelation checking only that the source node exists
bothNodesExist_fromOnly(ns, fromNodeId, toNodeId) == MapHas(ns, fromNodeId)

\* addRelation's guard: this.nodes.has(fromNodeId) and this.nodes.has(toNodeId)
bothNodesExist(ns, fromNodeId, toNodeId) == MapHas(ns, fromNodeId) /\ MapHas(ns, toNodeId)

addRelation(name, fromNodeId, toNodeId, metadata, flush) ==
    LET args == <<name, fromNodeId, toNodeId, metadata, Bool(flush)>>
        md == IF metadata = Undefined THEN Obj(<<>>) ELSE metadata
    IN
    /\ prev' = store
    /\ IF ~bothNodesExist(nodes, fromNodeId, toNodeId)
       THEN /\ call' = Threw("addRelation", args, "Both nodes must exist before creating a relation")
            /\ UNCHANGED <<nodes, relations, nodeRelations, idCounter, now, disk>>
       ELSE LET relation == [id |-> generateId, name |-> name, fromNodeId |-> fromNodeId,
                             toNodeId |-> toNodeId, metadata |-> _clone(md)]
            IN /\ idCounter' = idCounter + 1
               /\ relations' = MapSet(relations, relation)
               /\ nodeRelations' = IndexAdd(IndexAdd(nodeRelations, fromNodeId, relation.id),
                                            toNodeId, relation.id)
               /\ disk' = IF flush THEN flushToDisk(nodes, relations') ELSE disk
               /\ call' = Returned("addRelation", args, relation)
               /\ UNCHANGED <<nodes, now>>

----------------------------------------------------------------------------
(* Predicate engine *)

Ok(v) == [threw |-> FALSE, v |-> v]
Throw(msg) == [threw |-> TRUE, v |-> msg]

\* ToNumber, for the values the model holds; NaN is "NaN"
ToNumber(x) ==
    CASE x.t = "number" -> x
      [] x.t = "infinity" -> x
      [] x.t = "null" -> Num(0)
      [] x.t = "boolean" -> Num(IF x.v THEN 1 ELSE 0)
      [] x.t = "string" /\ Trim(x.v) = <<>> -> Num(0)
      [] x.t = "array" /\ x.v = <<>> -> Num(0)
      [] x.t = "array" /\ Len(x.v) = 1 -> Num(x.v[1])
      [] OTHER -> [t |-> "NaN", v |-> 0]

\* a < b on numbers: false as soon as one side is NaN
NumLess(a, b) ==
    CASE a.t = "NaN" \/ b.t = "NaN" -> FALSE
      [] a.t = "infinity" -> FALSE
      [] b.t = "infinity" -> TRUE
      [] OTHER -> a.v < b.v

NumEq(a, b) ==
    CASE a.t = "NaN" \/ b.t = "NaN" -> FALSE
      [] a.t = "infinity" \/ b.t = "infinity" -> a.t = b.t
      [] OTHER -> a.v = b.v

\* the relational operators of JavaScript on operands that are not both strings
JsLt(a, b) == NumLess(ToNumber(a), ToNumber(b))
JsGt(a, b) == NumLess(ToNumber(b), ToNumber(a))
JsLe(a, b) == NumLess(ToNumber(a), ToNumber(b)) \/ NumEq(ToNumber(a), ToNumber(b))
JsGe(a, b) == NumLess(ToNumber(b), ToNumber(a)) \/ NumEq(ToNumber(a), ToNumber(b))

\* a === b: objects and arrays are compared by reference, and a stored value
\* and a value of a query are never the same object
StrictEq(a, b) == a.t \notin {"object", "array"} /\ a = b

\* A similarity is kept exact as the fraction s/d, d > 0, that is its square
\* with its sign: the order of two similarities is the order of these fractions.
Sim(s, d) == [s |-> s, d |-> d]
SimLess(a, b) == a.s * b.d < b.s * a.d
SimOfNum(x) == Sim(IF x.v < 0 THEN -(x.v * x.v) ELSE x.v * x.v, 1)
Half == Sim(1, 4)

RECURSIVE Dot(_, _)
Dot(a, b) == IF a = <<>> THEN 0 ELSE Head(a) * Head(b) + Dot(Tail(a), Tail(b))

cosineSimilarity(vecA, vecB) ==
    IF ~IsArray(vecA) \/ ~IsArray(vecB) THEN Throw("Both vectors must be arrays")
    ELSE IF Len(vecA.v) # Len(vecB.v) THEN Throw("Vectors must have the same length")
    ELSE IF Len(vecA.v) = 0 THEN Ok(Sim(0, 1))
    ELSE LET dotProduct == Dot(vecA.v, vecB.v)
             magnitudeA == Dot(vecA.v, vecA.v)
             magnitudeB == Dot(vecB.v, vecB.v)
         IN IF magnitudeA = 0 \/ magnitudeB = 0 THEN Ok(Sim(0, 1))
            ELSE Ok(Sim(IF dotProduct < 0 THEN -(dotProduct * dotProduct)
                        ELSE dotProduct * dotProduct,
                        magnitudeA * magnitudeB))

\* the threshold of a cosineSimilarity condition: 0.5 when left out
ThresholdOf(c) ==
    IF Get(c, "threshold") = Undefined THEN Half ELSE SimOfNum(Get(c, "threshold"))

\* one entry of matchesMetadataConditions' loop, for the stored value `value`
matchesMetadataCondition(value, condition) ==
    IF TypeOf(condition) = "object" /\ condition # Null
    THEN IF \/ Get(condition, "eq") # Undefined /\ ~StrictEq(value, Get(condition, "eq"))
            \/ Get(condition, "ne") # Undefined /\ StrictEq(value, Get(condition, "ne"))
            \/ Get(condition, "gt") # Undefined /\ JsLe(value, Get(condition, "gt"))
            \/ Get(condition, "gte") # Undefined /\ JsLt(value, Get(condition, "gte"))
            \/ Get(condition, "lt") # Undefined /\ JsGe(value, Get(condition, "lt"))
            \/ Get(condition, "lte") # Undefined /\ JsGt(value, Get(condition, "lte"))
            \/ /\ Get(condition, "contains") # Undefined
               /\ ~StringIncludes(toLowerCase(String(value)),
                                  toLowerCase(String(Get(condition, "contains"))))
            \/ /\ Get(condition, "startsWith") # Undefined
               /\ ~startsWith(String(value), String(Get(condition, "startsWith")))
            \/ /\ Get(condition, "endsWith") # Undefined
               /\ ~endsWith(String(value), String(Get(condition, "endsWith")))
            \/ /\ Get(condition, "in") # Undefined
               /\ ~\E i \in 1..Len(Get(condition, "in").v) :
                     StrictEq(value, Get(condition, "in").v[i])
         THEN Ok(FALSE)
         ELSE IF Get(condition, "cosineSimilarity") # Undefined
         THEN LET c == Get(condition, "cosineSimilarity")
                  queryEmbedding == Get(c, "queryEmbedding")
              IN IF ~IsArray(value) \/ ~IsArray(queryEmbedding) THEN Ok(FALSE)
                 ELSE LET similarity == cosineSimilarity(queryEmbedding, value)
                      IN IF similarity.threw THEN similarity
                         ELSE Ok(~SimLess(similarity.v, ThresholdOf(c)))
         ELSE Ok(TRUE)
    ELSE Ok(StrictEq(value, condition))

RECURSIVE MetadataLoop(_, _)
MetadataLoop(metadata, entries) ==
    IF entries = <<>> THEN Ok(TRUE)
    ELSE LET r == matchesMetadataCondition(Get(metadata, Head(entries)[1]), Head(entries)[2])
         IN IF r.threw \/ ~r.v THEN r ELSE MetadataLoop(metadata, Tail(entries))

matchesMetadataConditions(metadata, conditions) ==
    MetadataLoop(metadata, IF conditions.t = "object" THEN conditions.v ELSE <<>>)

\* the id of an entity as a value of a condition
IdValue(id) == [t |-> "id", v |-> id]

\* a regular expression without special characters: test() finds the text
RegExp(text) == [t |-> "regexp", v |-> text]

\* the branch of matchesConditions for the key name: a string, a RegExp, or an object
\* whose contains is looked for in the name, both in lower case
matchesName(entity, value) ==
    IF TypeOf(value) = "string" THEN Ok(entity.name = value)
    ELSE IF value.t = "regexp" THEN Ok(StringIncludes(String(entity.name), value.v))
    ELSE IF value = Null
    THEN Throw("TypeError: Cannot read properties of null (reading 'contains')")
    ELSE IF TypeOf(value) = "object" /\ Truthy(Get(value, "contains"))
    THEN IF entity.name.t # "string"
         THEN Throw("TypeError: entity.name.toLowerCase is not a function")
         ELSE IF Get(value, "contains").t # "string"
         THEN Throw("TypeError: value.contains.toLowerCase is not a function")
         ELSE Ok(StringIncludes(toLowerCase(entity.name.v),
                                toLowerCase(Get(value, "contains").v)))
    ELSE Ok(TRUE)

matchesCondition(entity, key, value) ==
    CASE key = "metadata" -> matchesMetadataConditions(entity.metadata, value)
      [] key = "cosineSimilarity" ->
            LET embeddingKey == IF Get(value, "embeddingKey") = Undefined THEN "embedding"
                                ELSE Get(value, "embeddingKey").v
                embedding == Get(entity.metadata, embeddingKey)
            IN IF ~IsArray(embedding) THEN Ok(FALSE)
               ELSE LET similarity == cosineSimilarity(Get(value, "queryEmbedding"), embedding)
                    IN IF similarity.threw THEN similarity
                       ELSE Ok(~SimLess(similarity.v, ThresholdOf(value)))
      [] key = "name" -> matchesName(entity, value)
      [] key = "id" -> Ok(IdValue(entity.id) = value)
      [] key \in {"fromNodeId", "toNodeId"} ->
            Ok(key \in DOMAIN entity /\ IdValue(entity[key]) = value)
      [] OTHER -> Ok(TRUE)

RECURSIVE ConditionsLoop(_, _)
ConditionsLoop(entity, entries) ==
    IF entries = <<>> THEN Ok(TRUE)
    ELSE LET r == matchesCondition(entity, Head(entries)[1], Head(entries)[2])
         IN IF r.threw \/ ~r.v THEN r ELSE ConditionsLoop(entity, Tail(entries))

matchesConditions(entity, conditions) == ConditionsLoop(entity, conditions.v)

\* searchNodes and searchRelations: the matching entities of a Map, in its order
RECURSIVE SearchLoop(_, _, _)
SearchLoop(m, conditions, results) ==
    IF m = <<>> THEN Ok(results)
    ELSE LET r == matchesConditions(Head(m), conditions)
         IN IF r.threw THEN r
            ELSE SearchLoop(Tail(m), conditions,
                            IF r.v THEN Append(results, Head(m)) ELSE results)

searchNodes(g, conditions) ==
    SearchLoop(g.nodes, IF conditions = Undefined THEN Obj(<<>>) ELSE conditions, <<>>)

searchRelations(g, conditions) ==
    SearchLoop(g.relations, IF conditions = Undefined THEN Obj(<<>>) ELSE conditions, <<>>)

----------------------------------------------------------------------------
(* Similarity ranker *)

\* results.sort((a, b) => b.similarity - a.similarity): a stable sort, the
\* higher similarity first
RECURSIVE InsertRanked(_, _)
InsertRanked(sorted, x) ==
    IF sorted = <<>> THEN <<x>>
    ELSE IF SimLess(Head(sorted).similarity, x.similarity)
    THEN <<x>> \o sorted
    ELSE <<Head(sorted)>> \o InsertRanked(Tail(sorted), x)

\* a sort that leaves the results in the order of the Map
SortRanked_unsorted(results, sorted) == results

RECURSIVE SortRanked(_, _)
SortRanked(results, sorted) ==
    IF results = <<>> THEN sorted
    ELSE SortRanked(Tail(results), InsertRanked(sorted, Head(results)))

\* results.slice(0, limit), for a limit >= 0
Slice(results, limit) ==
    SubSeq(results, 1, IF limit.v < Len(results) THEN limit.v ELSE Len(results))

\* one entry of the result: { node, similarity } or { relation, similarity }
Ranked(field, entity, similarity) ==
    IF field = "node" THEN [node |-> entity, similarity |-> similarity]
    ELSE [relation |-> entity, similarity |-> similarity]

\* the forEach of the two similarity searches over the Map m
RECURSIVE RankLoop(_, _, _, _, _, _)
RankLoop(m, field, queryEmbedding, embeddingKey, threshold, results) ==
    IF m = <<>> THEN Ok(results)
    ELSE LET embedding == Get(Head(m).metadata, embeddingKey)
         IN IF ~IsArray(embedding)
            THEN RankLoop(Tail(m), field, queryEmbedding, embeddingKey, threshold, results)
            ELSE LET similarity == cosineSimilarity(queryEmbedding, embedding)
                 IN IF similarity.threw THEN similarity
                    ELSE RankLoop(Tail(m), field, queryEmbedding, embeddingKey, threshold,
                            IF ~SimLess(similarity.v, threshold)
                            THEN Append(results, Ranked(field, Head(m), similarity.v))
                            ELSE results)

\* the body that the two similarity searches have in common
searchByCosineSimilarity(m, field, queryEmbedding, options) ==
    LET opts == IF options = Undefined THEN Obj(<<>>) ELSE options
        embeddingKey == IF Get(opts, "embeddingKey") = Undefined THEN "embedding"
                        ELSE Get(opts, "embeddingKey").v
        limit == IF Get(opts, "limit") = Undefined THEN Num(10) ELSE Get(opts, "limit")
    IN IF opts = Null
       THEN Throw("TypeError: Cannot destructure property of null")
       ELSE IF ~IsArray(queryEmbedding) \/ Len(queryEmbedding.v) = 0
       THEN Throw("Query embedding must be a non-empty array")
       ELSE LET results == RankLoop(m, field, queryEmbedding, embeddingKey,
                                    ThresholdOf(opts), <<>>)
            IN IF results.threw THEN results
               ELSE Ok(Slice(SortRanked(results.v, <<>>), limit))

searchNodesByCosineSimilarity(g, queryEmbedding, options) ==
    searchByCosineSimilarity(g.nodes, "node", queryEmbedding, options)

searchRelationsByCosineSimilarity(g, queryEmbedding, options) ==
    searchByCosineSimilarity(g.relations, "relation", queryEmbedding, options)

----------------------------------------------------------------------------
(* Traversal of a store g.  The closures' shared visited-sets and result are *)
(* the record st, handed from call to call; st.calls counts the calls of the *)
(* inner function traverse.                                                   *)

\* const { key = default } = options
Option(options, key, default) ==
    IF Get(options, key) = Undefined THEN default ELSE Get(options, key)

Includes(array, x) == \E i \in 1..Len(array.v) : array.v[i] = x

BothDirections == Arr(<<"outgoing", "incoming">>)

\* traverseFromNode visiting a relation again whenever it meets it
alreadyVisited_never(visited, relId) == FALSE

\* visitedRelations.has(relId)
alreadyVisited(visited, relId) == relId \in visited

RECURSIVE traverseNode(_, _, _, _, _)
RECURSIVE traverseNodeLoop(_, _, _, _, _, _)
traverseNode(g, o, nodeId, depth, st) ==
    LET entered == [st EXCEPT !.calls = @ + 1]
    IN IF JsGt(Num(depth), o.maxDepth) \/ nodeId \in st.visitedNodes THEN entered
       ELSE traverseNodeLoop(g, o, nodeId, depth, RelsOf(g.nodeRelations, nodeId),
                             [entered EXCEPT !.visitedNodes = @ \cup {nodeId}])

traverseNodeLoop(g, o, nodeId, depth, rels, st) ==
    IF rels = <<>> THEN st
    ELSE LET relId == Head(rels)
             rel == MapGet(g.relations, relId)
             isOut == rel.fromNodeId = nodeId
             dir == IF isOut THEN "outgoing" ELSE "incoming"
             otherNodeId == IF isOut THEN rel.toNodeId ELSE rel.fromNodeId
         IN IF \/ alreadyVisited(st.visitedRelations, relId)
               \/ ~MapHas(g.relations, relId)
               \/ (Truthy(o.relationName) /\ rel.name # o.relationName)
               \/ ~Includes(o.directions, dir)
               \/ ~MapHas(g.nodes, otherNodeId)
            THEN traverseNodeLoop(g, o, nodeId, depth, Tail(rels), st)
            ELSE LET pushed == [st EXCEPT
                                  !.visitedRelations = @ \cup {relId},
                                  !.result = Append(@, <<MapGet(g.nodes, nodeId), rel,
                                                         MapGet(g.nodes, otherNodeId)>>)]
                 IN traverseNodeLoop(g, o, nodeId, depth, Tail(rels),
                                     traverseNode(g, o, otherNodeId, depth + 1, pushed))

NoneVisited == [visitedNodes |-> {}, visitedRelations |-> {}, result |-> <<>>, calls |-> 0]

\* the run of traverseFromNode: destructuring null throws a TypeError, and the
\* properties of a value that is no object are undefined, so the defaults apply
traverseFromNodeRun(g, startNodeId, options) ==
    LET opts == IF options = Undefined THEN Obj(<<>>) ELSE options
        o == [maxDepth |-> Option(opts, "maxDepth", Infinity),
              directions |-> Option(opts, "directions", BothDirections),
              relationName |-> Option(opts, "relationName", Null)]
    IN IF opts = Null THEN Throw("TypeError: Cannot destructure property of null")
       ELSE Ok(traverseNode(g, o, startNodeId, 0, NoneVisited))

traverseFromNode(g, startNodeId, options) ==
    LET run == traverseFromNodeRun(g, startNodeId, options)
    IN IF run.threw THEN run ELSE Ok(run.v.result)

RECURSIVE traverseRelation(_, _, _, _, _)
RECURSIVE traverseConnected(_, _, _, _, _)
traverseRelation(g, maxDepth, relationId, depth, st) ==
    LET entered == [st EXCEPT !.calls = @ + 1]
    IN IF (maxDepth # Null /\ JsGt(Num(depth), maxDepth)) \/ relationId \in st.visited
       THEN entered
       ELSE LET seen == [entered EXCEPT !.visited = @ \cup {relationId}]
            IN IF ~MapHas(g.relations, relationId) THEN seen
               ELSE LET rel == MapGet(g.relations, relationId)
                    IN IF MapHas(g.nodes, rel.fromNodeId) /\ MapHas(g.nodes, rel.toNodeId)
                       THEN LET pushed == [seen EXCEPT !.result =
                                              Append(@, <<MapGet(g.nodes, rel.fromNodeId), rel,
                                                          MapGet(g.nodes, rel.toNodeId)>>)]
                                atFrom == traverseConnected(g, maxDepth,
                                              RelsOf(g.nodeRelations, rel.fromNodeId), depth, pushed)
                            IN traverseConnected(g, maxDepth,
                                   RelsOf(g.nodeRelations, rel.toNodeId), depth, atFrom)
                       ELSE seen

\* the loop over the relations at a node going on from the first of them only
traverseConnected_firstOnly(g, maxDepth, rels, depth, st) ==
    IF rels = <<>> \/ Head(rels) \in st.visited THEN st
    ELSE traverseRelation(g, maxDepth, Head(rels), depth + 1, st)

\* connectedRelations.forEach: each relation not yet visited is traversed
traverseConnected(g, maxDepth, rels, depth, st) ==
    IF rels = <<>> THEN st
    ELSE traverseConnected(g, maxDepth, Tail(rels), depth,
            IF Head(rels) \in st.visited THEN st
            ELSE traverseRelation(g, maxDepth, Head(rels), depth + 1, st))

traverseFromRelationRun(g, startRelationId, maxDepth) ==
    traverseRelation(g, IF maxDepth = Undefined THEN Null ELSE maxDepth, startRelationId, 0,
                     [visited |-> {}, result |-> <<>>, calls |-> 0])

traverseFromRelation(g, startRelationId, maxDepth) ==
    IF ~MapHas(g.relations, startRelationId) THEN Ok(<<>>)
    ELSE Ok(traverseFromRelationRun(g, startRelationId, maxDepth).result)

\* JSON.parse(JSON.stringify(triplet))
JsonTriplet(t) == <<JsonEntity(t[1]), JsonEntity(t[2]), JsonEntity(t[3])>>

\* allResults.add(JSON.stringify(result)) for each result, in order
RECURSIVE AddAll(_, _)
AddAll(allResults, results) ==
    IF results = <<>> THEN allResults
    ELSE AddAll(SetAdd(allResults, JsonTriplet(Head(results))), Tail(results))

\* the two forEach loops of traverseFromMetadata, over the nodes found and over
\* the relations found: each starts the traversal of its entityType
RECURSIVE TraverseEach(_, _, _, _, _)
TraverseEach(entityType, g, found, maxDepth, allResults) ==
    IF found = <<>> THEN Ok(allResults)
    ELSE CHOOSE done \in
            {IF results.threw THEN results
             ELSE TraverseEach(entityType, g, Tail(found), maxDepth,
                               AddAll(allResults, results.v)) :
               results \in {IF entityType = "node"
                            THEN traverseFromNode(g, Head(found).id, maxDepth)
                            ELSE traverseFromRelation(g, Head(found).id, maxDepth)}} : TRUE

traverseFromMetadata(g, metadataConditions, maxDepth) ==
    LET depth == IF maxDepth = Undefined THEN Null ELSE maxDepth
        conditions == Obj(<<(<<"metadata", metadataConditions>>)>>)
    IN CHOOSE done \in
          {IF matchingNodes.threw THEN matchingNodes
           ELSE IF matchingRelations.threw THEN matchingRelations
           ELSE CHOOSE all \in
                   {IF fromNodes.threw THEN fromNodes
                    ELSE TraverseEach("relation", g, matchingRelations.v, depth, fromNodes.v) :
                      fromNodes \in {TraverseEach("node", g, matchingNodes.v, depth, <<>>)}} :
                   TRUE :
             matchingNodes \in {searchNodes(g, conditions)},
             matchingRelations \in {searchRelations(g, conditions)}} : TRUE

----------------------------------------------------------------------------
(* Hierarchical assembler: searchAndTraverse and the trees it builds.  The   *)
(* closures' shared visited-set is handed from call to call: buildNode and   *)
(* buildRelation yield [v, visited], the structure built and the set after.  *)

\* ...(depth === 0 && similarity !== undefined ? { similarity } : {}) in a result
WithSimilarity(result, depth, similarity) ==
    IF depth = 0 /\ similarity # Undefined
    THEN [k \in DOMAIN result \cup {"similarity"} |->
            IF k = "similarity" THEN similarity ELSE result[k]]
    ELSE result

NodeResult(nodeEntity, depth, similarity) ==
    WithSimilarity([type |-> "node", entity |-> nodeEntity,
                    outgoingRelations |-> <<>>, incomingRelations |-> <<>>],
                   depth, similarity)

RelationResult(relationEntity, depth, similarity) ==
    WithSimilarity([type |-> "relation", entity |-> relationEntity,
                    fromNode |-> Null, toNode |-> Null],
                   depth, similarity)

\* visited.has(`relation:${relationId}`) in buildNode's loop
relationVisited(visited, relationId) == <<"relation", relationId>> \in visited

RECURSIVE buildNode(_, _, _, _, _)
RECURSIVE buildNodeLoop(_, _, _, _, _, _)
RECURSIVE buildRelation(_, _, _, _, _)
RECURSIVE buildEndpoint(_, _, _, _, _)
buildNode(g, p, nodeEntity, depth, visited) ==
    LET nodeResult == NodeResult(nodeEntity, depth, p.similarity)
    IN IF JsGt(Num(depth), p.maxHops) \/ <<"node", nodeEntity.id>> \in visited
       THEN [v |-> nodeResult, visited |-> visited]
       ELSE LET seen == visited \cup {<<"node", nodeEntity.id>>}
            IN IF JsGe(Num(depth), p.maxHops)
               THEN [v |-> nodeResult, visited |-> seen]
               ELSE buildNodeLoop(g, p, nodeEntity, depth,
                                  RelsOf(g.nodeRelations, nodeEntity.id),
                                  [v |-> nodeResult, visited |-> seen])

buildNodeLoop(g, p, nodeEntity, depth, relationIds, acc) ==
    IF relationIds = <<>> THEN acc
    ELSE LET relationId == Head(relationIds)
             relation == MapGet(g.relations, relationId)
             isOutgoing == relation.fromNodeId = nodeEntity.id
             direction == IF isOutgoing THEN "outgoing" ELSE "incoming"
         IN IF \/ ~MapHas(g.relations, relationId)
               \/ relationVisited(acc.visited, relationId)
               \/ ~Includes(p.directions, direction)
            THEN buildNodeLoop(g, p, nodeEntity, depth, Tail(relationIds), acc)
            ELSE \* relationStructure is built once, then pushed
                 CHOOSE built \in
                    {buildNodeLoop(g, p, nodeEntity, depth, Tail(relationIds),
                        [v |-> IF isOutgoing
                               THEN [acc.v EXCEPT !.outgoingRelations =
                                                     Append(@, relationStructure.v)]
                               ELSE [acc.v EXCEPT !.incomingRelations =
                                                     Append(@, relationStructure.v)],
                         visited |-> relationStructure.visited]) :
                     relationStructure \in
                        {buildRelation(g, p, relation, depth + 1, acc.visited)}} : TRUE

\* buildNode(node, depth + 1) for an endpoint of a relation, when it is a node
buildEndpoint(g, p, nodeId, depth, visited) ==
    IF MapHas(g.nodes, nodeId)
    THEN buildNode(g, p, MapGet(g.nodes, nodeId), depth + 1, visited)
    ELSE [v |-> Null, visited |-> visited]

\* buildRelation stopping at the hop bound whatever endOnNode says
buildRelation_endsAtBound(g, p, relationEntity, depth, visited) ==
    LET relationResult == RelationResult(relationEntity, depth, p.similarity)
    IN IF JsGt(Num(depth), p.maxHops) \/ <<"relation", relationEntity.id>> \in visited
       THEN [v |-> relationResult, visited |-> visited]
       ELSE LET seen == visited \cup {<<"relation", relationEntity.id>>}
            IN IF JsGe(Num(depth), p.maxHops)
               THEN [v |-> relationResult, visited |-> seen]
               ELSE CHOOSE built \in UNION
                       {{[v |-> [relationResult EXCEPT !.fromNode = fromNode.v,
                                                       !.toNode = toNode.v],
                          visited |-> toNode.visited] :
                         toNode \in {buildEndpoint(g, p, relationEntity.toNodeId, depth,
                                                   fromNode.visited)}} :
                        fromNode \in {buildEndpoint(g, p, relationEntity.fromNodeId, depth,
                                                    seen)}} : TRUE

buildRelation(g, p, relationEntity, depth, visited) ==
    LET relationResult == RelationResult(relationEntity, depth, p.similarity)
    IN IF JsGt(Num(depth), p.maxHops) \/ <<"relation", relationEntity.id>> \in visited
       THEN [v |-> relationResult, visited |-> visited]
       ELSE LET seen == visited \cup {<<"relation", relationEntity.id>>}
            IN IF JsGe(Num(depth), p.maxHops) /\ ~Truthy(p.endOnNode)
               THEN [v |-> relationResult, visited |-> seen]
               ELSE \* fromNode is built once, then toNode once
                    CHOOSE built \in UNION
                       {{[v |-> [relationResult EXCEPT !.fromNode = fromNode.v,
                                                       !.toNode = toNode.v],
                          visited |-> toNode.visited] :
                         toNode \in {buildEndpoint(g, p, relationEntity.toNodeId, depth,
                                                   fromNode.visited)}} :
                        fromNode \in {buildEndpoint(g, p, relationEntity.fromNodeId, depth,
                                                    seen)}} : TRUE

_buildHierarchicalStructure(g, entityType, entity, maxHops, directions, endOnNode, similarity) ==
    LET p == [maxHops |-> maxHops, directions |-> directions, endOnNode |-> endOnNode,
              similarity |-> similarity]
    IN CASE entityType = "node" -> buildNode(g, p, entity, 0, {}).v
         [] entityType = "relation" -> buildRelation(g, p, entity, 0, {}).v
         [] OTHER -> Null

\* matches.filter(match => this.matchesConditions(match.node, filters)).map(...):
\* the matches that pass the filters, as initial matches of their type
RECURSIVE FilterMatches(_, _, _, _)
FilterMatches(matches, type, filters, kept) ==
    IF matches = <<>> THEN Ok(kept)
    ELSE LET entity == IF type = "node" THEN Head(matches).node ELSE Head(matches).relation
             r == matchesConditions(entity, filters)
         IN IF r.threw THEN r
            ELSE FilterMatches(Tail(matches), type, filters,
                    IF r.v THEN Append(kept, [type |-> type, entity |-> entity,
                                              similarity |-> Head(matches).similarity])
                    ELSE kept)

\* the options that searchAndTraverse hands to a similarity search: a key left
\* undefined takes the same default there as here
RankOptionsOf(opts, limit) ==
    Obj(SelectSeq(<<(<<"embeddingKey", Get(opts, "embeddingKey")>>),
                    (<<"threshold", Get(opts, "threshold")>>),
                    (<<"limit", limit>>)>>,
                  LAMBDA pair : pair[2] # Undefined))

\* Math.ceil(limit / d) for a limit >= 0 and d in {1, 2}
CeilDiv(limit, d) == Num((limit.v + d - 1) \div d)

\* the matches of a similarity search that pass the filters, after those kept
FilterAll(matches, type, filters, kept) ==
    IF matches.threw THEN matches ELSE FilterMatches(matches.v, type, filters, kept)

\* "Find initial node matches"
nodeMatches(g, queryEmbedding, opts) ==
    IF ~Truthy(Option(opts, "searchNodes", Bool(TRUE))) THEN Ok(<<>>)
    ELSE FilterAll(searchNodesByCosineSimilarity(g, queryEmbedding,
                      RankOptionsOf(opts,
                         CeilDiv(Option(opts, "limit", Num(10)),
                                 IF Truthy(Option(opts, "searchRelations", Bool(TRUE)))
                                 THEN 2 ELSE 1))),
                   "node", Option(opts, "nodeFilters", Obj(<<>>)), <<>>)

\* "Find initial relation matches", pushed after the node matches
relationMatches(g, queryEmbedding, opts, initialMatches) ==
    IF initialMatches.threw \/ ~Truthy(Option(opts, "searchRelations", Bool(TRUE)))
    THEN initialMatches
    ELSE FilterAll(searchRelationsByCosineSimilarity(g, queryEmbedding,
                      RankOptionsOf(opts,
                         CeilDiv(Option(opts, "limit", Num(10)),
                                 IF Truthy(Option(opts, "searchNodes", Bool(TRUE)))
                                 THEN 2 ELSE 1))),
                   "relation", Option(opts, "relationFilters", Obj(<<>>)),
                   initialMatches.v)

\* "Build hierarchical structure from each initial match"
BuildEach(g, topMatches, hops, directions, endOnNode) ==
    [i \in 1..Len(topMatches) |->
        _buildHierarchicalStructure(g, topMatches[i].type, topMatches[i].entity,
                                    hops, directions, endOnNode, topMatches[i].similarity)]

\* "Sort by similarity and take top results", then the structures
TopMatches(g, opts, initialMatches) ==
    IF initialMatches.threw THEN initialMatches
    ELSE Ok(BuildEach(g, Slice(SortRanked(initialMatches.v, <<>>),
                               Option(opts, "limit", Num(10))),
                      Option(opts, "hops", Num(3)),
                      Option(opts, "directions", BothDirections),
                      Option(opts, "endOnNode", Bool(FALSE))))

searchAndTraverse(g, queryEmbedding, options) ==
    LET opts == IF options = Undefined THEN Obj(<<>>) ELSE options
    IN IF opts = Null THEN Throw("TypeError: Cannot destructure property of null")
       ELSE IF ~IsArray(queryEmbedding) \/ Len(queryEmbedding.v) = 0
       THEN Throw("Query embedding must be a non-empty array")
       ELSE TopMatches(g, opts,
               relationMatches(g, queryEmbedding, opts,
                               nodeMatches(g, queryEmbedding, opts)))

----------------------------------------------------------------------------
(* Mutations of a store g = [nodes, relations, nodeRelations, disk]; each    *)
(* yields [threw, v, g]: what is returned or thrown, and the store it leaves *)

Done(v, g) == [threw |-> FALSE, v |-> v, g |-> g]
Fail(msg, g) == [threw |-> TRUE, v |-> msg, g |-> g]

Flushed(ns, rs, index) ==
    [nodes |-> ns, relations |-> rs, nodeRelations |-> index, disk |-> flushToDisk(ns, rs)]

\* an update that assigns every key of updates that the entity has
applyUpdates_everyKey(entity, updates) ==
    [k \in DOMAIN entity |->
        IF k = "metadata" /\ Get(updates, k) # Undefined
        THEN Spread(entity.metadata, _clone(Get(updates, k)))
        ELSE IF Get(updates, k) = Undefined THEN entity[k]
        ELSE IF k = "name" THEN Get(updates, k) ELSE Get(updates, k).v]

\* the assignments of updateNode and updateRelation to the entity found
applyUpdates(entity, updates) ==
    LET named == IF Get(updates, "name") # Undefined
                 THEN [entity EXCEPT !.name = Get(updates, "name")]
                 ELSE entity
    IN IF Get(updates, "metadata") # Undefined
       THEN [named EXCEPT !.metadata = Spread(entity.metadata, _clone(Get(updates, "metadata")))]
       ELSE named

updateNode(g, nodeId, updates) ==
    IF ~MapHas(g.nodes, nodeId) THEN Fail("Node not found", g)
    ELSE LET node == applyUpdates(MapGet(g.nodes, nodeId), updates)
         IN Done(node, Flushed(MapSet(g.nodes, node), g.relations, g.nodeRelations))

updateRelation(g, relationId, updates) ==
    IF ~MapHas(g.relations, relationId) THEN Fail("Relation not found", g)
    ELSE LET relation == applyUpdates(MapGet(g.relations, relationId), updates)
         IN Done(relation, Flushed(g.nodes, MapSet(g.relations, relation), g.nodeRelations))

\* deleteNode deleting only the first of the node's relations
deleteConnected_firstOnly(rs, relationIds) ==
    SelectSeq(rs, LAMBDA r : relationIds = <<>> \/ r.id # Head(relationIds))

\* deleteNode, "Delete all relations connected to this node"
deleteConnected(rs, relationIds) ==
    SelectSeq(rs, LAMBDA r : r.id \notin SetOf(relationIds))

\* deleteNode without the clean-up of the other nodes' sets
removeFromOthers_skipped(index, nodeId, relationIds) == index

\* deleteNode, "Remove from other nodes' relation sets"
removeFromOthers(index, nodeId, relationIds) ==
    [i \in 1..Len(index) |->
        IF index[i].id # nodeId
        THEN [index[i] EXCEPT !.rels = SelectSeq(@, LAMBDA x : x \notin SetOf(relationIds))]
        ELSE index[i]]

\* deleteNode without its check that the node exists: nothing is found to
\* delete, the file is written and undefined is returned
deleteNode_unchecked(g, nodeId) ==
    LET relationIds == RelsOf(g.nodeRelations, nodeId)
        rs == deleteConnected(g.relations, relationIds)
        index == removeFromOthers(g.nodeRelations, nodeId, relationIds)
    IN Done(IF MapHas(g.nodes, nodeId) THEN MapGet(g.nodes, nodeId) ELSE Undefined,
            Flushed(MapDelete(g.nodes, nodeId), rs, MapDelete(index, nodeId)))

deleteNode(g, nodeId) ==
    IF ~MapHas(g.nodes, nodeId) THEN Fail("Node not found", g)
    ELSE LET node == MapGet(g.nodes, nodeId)
             relationIds == RelsOf(g.nodeRelations, nodeId)
             rs == deleteConnected(g.relations, relationIds)
             index == removeFromOthers(g.nodeRelations, nodeId, relationIds)
         IN Done(node, Flushed(MapDelete(g.nodes, nodeId), rs, MapDelete(index, nodeId)))

deleteRelation(g, relationId) ==
    IF ~MapHas(g.relations, relationId) THEN Fail("Relation not found", g)
    ELSE LET relation == MapGet(g.relations, relationId)
             index == IndexDelete(IndexDelete(g.nodeRelations, relation.fromNodeId, relationId),
                                  relation.toNodeId, relationId)
         IN Done(relation, Flushed(g.nodes, MapDelete(g.relations, relationId), index))

Found(g, entityType, searchConditions) ==
    CASE entityType = "node" -> searchNodes(g, searchConditions)
      [] entityType = "relation" -> searchRelations(g, searchConditions)
      [] OTHER -> Ok(<<>>)

\* the forEach of deleteBySearch over the entities found: the first throw ends
\* the call
RECURSIVE DeleteEach(_, _, _, _)
DeleteEach(entityType, g, found, deleted) ==
    IF found = <<>> THEN Done(deleted, g)
    ELSE \* the deletion is applied once, then the loop goes on from its store
         CHOOSE done \in
            {IF r.threw THEN r
             ELSE DeleteEach(entityType, r.g, Tail(found), Append(deleted, r.v)) :
             r \in {IF entityType = "node" THEN deleteNode(g, Head(found).id)
                    ELSE deleteRelation(g, Head(found).id)}} : TRUE

deleteBySearch(g, entityType, searchConditions) ==
    \* the search runs once, then the loop over what it found
    CHOOSE done \in
       {IF found.threw THEN Fail(found.v, g)
        ELSE DeleteEach(entityType, g, found.v, <<>>) :
        found \in {Found(g, entityType, searchConditions)}} : TRUE

\* the forEach of updateBySearch over the entities found
RECURSIVE UpdateEach(_, _, _, _, _)
UpdateEach(entityType, g, found, updates, updated) ==
    IF found = <<>> THEN Done(updated, g)
    ELSE \* the update is applied once, then the loop goes on from its store
         CHOOSE done \in
            {IF r.threw THEN r
             ELSE UpdateEach(entityType, r.g, Tail(found), updates, Append(updated, r.v)) :
             r \in {IF entityType = "node" THEN updateNode(g, Head(found).id, updates)
                    ELSE updateRelation(g, Head(found).id, updates)}} : TRUE

updateBySearch(g, entityType, searchConditions, updates) ==
    \* the search runs once, then the loop over what it found
    CHOOSE done \in
       {IF found.threw THEN Fail(found.v, g)
        ELSE UpdateEach(entityType, g, found.v, updates, <<>>) :
        found \in {Found(g, entityType, searchConditions)}} : TRUE

\* exportData: the values of both Maps, in insertion order
exportData(g) == Obj(<<(<<"nodes", Arr(g.nodes)>>), (<<"relations", Arr(g.relations)>>)>>)

\* data.nodes.forEach(node => this.nodes.set(node.id, node)), and the same for relations
RECURSIVE SetEach(_, _)
SetEach(m, entities) ==
    IF entities = <<>> THEN m ELSE SetEach(MapSet(m, Head(entities)), Tail(entities))

\* the Map importData fills from data[field] after clear(); a missing field adds nothing
Imported(data, field) ==
    IF Truthy(Get(data, field)) THEN SetEach(<<>>, Get(data, field).v) ELSE <<>>

\* importData sets both Maps, rebuilds the index, then flushes; an exception of the
\* rebuild leaves the Maps set, the index as far as it got and the file untouched
importData(g, data) ==
    LET ns == Imported(data, "nodes")
        rs == Imported(data, "relations")
        index == rebuildNodeRelationsIndex(ns, rs)
    IN IF index.threw
       THEN Fail("TypeError: Cannot read properties of undefined (reading 'add')",
                 [nodes |-> ns, relations |-> rs, nodeRelations |-> index.v, disk |-> g.disk])
       ELSE Done(Undefined, Flushed(ns, rs, index.v))

\* the constructor's loadFromFile: nothing without a file; else both Maps from the
\* parsed file and the index rebuilt, an exception of the rebuild being caught and logged
loadFromFile(file) ==
    IF ~file.exists
    THEN [nodes |-> <<>>, relations |-> <<>>, nodeRelations |-> <<>>, disk |-> file]
    ELSE LET ns == SetEach(<<>>, file.nodes)
             rs == SetEach(<<>>, file.relations)
         IN [nodes |-> ns, relations |-> rs,
             nodeRelations |-> rebuildNodeRelationsIndex(ns, rs).v, disk |-> file]

\* a call op(args) that ends as r says
Apply(op, args, r) ==
    /\ prev' = store
    /\ nodes' = r.g.nodes
    /\ relations' = r.g.relations
    /\ nodeRelations' = r.g.nodeRelations
    /\ disk' = r.g.disk
    /\ call' = IF r.threw THEN Threw(op, args, r.v) ELSE Returned(op, args, r.v)
    /\ UNCHANGED <<idCounter, now>>

----------------------------------------------------------------------------
(* Inputs *)

UnknownId == <<0, -1>>

NodeIds == MapKeys(nodes)
RelationIds == MapKeys(relations)
IdInputs == NodeIds \cup RelationIds \cup {UnknownId}

Meta(key, n) == Obj(<<(<<key, Num(n)>>)>>)
Meta2(k1, n1, k2, n2) == Obj(<<(<<k1, Num(n1)>>), (<<k2, Num(n2)>>)>>)

NameA == Str(<<"A">>)
NameB == Str(<<"B">>)
NameR == Str(<<"r">>)
NameS == Str(<<"s">>)

----------------------------------------------------------------------------
(* Spec: the graph under every mutation, from an empty store without a file *)

Renamed == Obj(<<(<<"name", NameB>>), (<<"metadata", Meta("a", 1)>>)>>)

SearchInputs ==
    {Obj(<<(<<"name", NameA>>)>>),
     Obj(<<(<<"name", NameR>>)>>),
     Obj(<<(<<"metadata", Meta("a", 1)>>)>>)}

AddNode ==
    /\ idCounter < MaxId
    /\ addNode(NameA, Undefined, TRUE)

AddRelation ==
    /\ idCounter < MaxId
    /\ \E from \in NodeIds, to \in NodeIds : addRelation(NameR, from, to, Undefined, TRUE)

UpdateNode ==
    \E id \in NodeIds \cup {UnknownId} :
        Apply("updateNode", <<id, Renamed>>, updateNode(store, id, Renamed))

UpdateRelation ==
    \E id \in RelationIds \cup {UnknownId} :
        Apply("updateRelation", <<id, Renamed>>, updateRelation(store, id, Renamed))

DeleteNode ==
    \E id \in NodeIds \cup {UnknownId} : Apply("deleteNode", <<id>>, deleteNode(store, id))

DeleteRelation ==
    \E id \in RelationIds \cup {UnknownId} :
        Apply("deleteRelation", <<id>>, deleteRelation(store, id))

DeleteBySearch ==
    \E entityType \in {"node", "relation"}, conditions \in SearchInputs :
        Apply("deleteBySearch", <<entityType, conditions>>,
              deleteBySearch(store, entityType, conditions))

Next ==
    \/ AddNode
    \/ AddRelation
    \/ UpdateNode
    \/ UpdateRelation
    \/ DeleteNode
    \/ DeleteRelation
    \/ DeleteBySearch

Spec == Init /\ [][Next]_vars

----------------------------------------------------------------------------
(* Properties of Spec *)

Incident(rs, n) ==
    {rs[i].id : i \in {j \in 1..Len(rs) : rs[j].fromNodeId = n \/ rs[j].toNodeId = n}}

IsSet(s) == \A i, j \in 1..Len(s) : s[i] = s[j] => i = j

SameIndex(a, b) ==
    /\ MapKeys(a) = MapKeys(b)
    /\ \A n \in MapKeys(a) : SetOf(RelsOf(a, n)) = SetOf(RelsOf(b, n))

\* C1: after any sequence of mutations the incrementally maintained nodeRelations
\* equals what rebuildNodeRelationsIndex computes from nodes and relations: its
\* keys are exactly the ids of the nodes, and the set of a node n is exactly the
\* ids of the relations with fromNodeId = n or toNodeId = n.
C1_IndexEqualsRebuild ==
    LET rebuilt == rebuildNodeRelationsIndex(nodes, relations)
    IN /\ ~rebuilt.threw
       /\ SameIndex(nodeRelations, rebuilt.v)
       /\ MapKeys(nodeRelations) = NodeIds
       /\ IsSet([i \in 1..Len(nodeRelations) |-> nodeRelations[i].id])
       /\ \A n \in NodeIds :
             /\ IsSet(RelsOf(nodeRelations, n))
             /\ SetOf(RelsOf(nodeRelations, n)) = Incident(relations, n)

\* a relation was just deleted and left two parallel self-loops and a relation
\* between two nodes behind
C1_Witness ==
    /\ call.op \in {"deleteRelation", "deleteNode", "deleteBySearch"}
    /\ call.outcome = "return"
    /\ Len(prev.relations) > Len(relations)
    /\ \E i, j \in 1..Len(relations) :
          /\ i # j
          /\ relations[i].fromNodeId = relations[j].fromNodeId
          /\ relations[i].toNodeId = relations[j].toNodeId
    /\ \E i \in 1..Len(relations) : relations[i].fromNodeId = relations[i].toNodeId

\* C2: in every reachable state both ends of every stored relation are ids of
\* nodes that exist in the store.
C2_NoDanglingRelation ==
    \A i \in 1..Len(relations) :
        /\ MapHas(nodes, relations[i].fromNodeId)
        /\ MapHas(nodes, relations[i].toNodeId)

\* a node that another node had a relation to was deleted, and a relation is left
C2_Witness ==
    /\ call.op = "deleteNode"
    /\ call.outcome = "return"
    /\ \E i \in 1..Len(prev.relations) :
          /\ prev.relations[i].toNodeId = call.args[1]
          /\ prev.relations[i].fromNodeId # call.args[1]
    /\ relations # <<>>

NotIncident(rs, n) == SelectSeq(rs, LAMBDA r : r.fromNodeId # n /\ r.toNodeId # n)

\* C3: deleteNode(n) on an existing node n returns n; afterwards n is absent from
\* nodes and from the index, every relation that had n as an end is absent from
\* relations and from every other node's set, and every other node and every
\* relation not incident to n is as it was.
C3_DeleteNodeCascades ==
    (call.op = "deleteNode" /\ MapHas(prev.nodes, call.args[1])) =>
        LET n == call.args[1]
            gone == Incident(prev.relations, n)
        IN /\ call.outcome = "return"
           /\ call.ret = MapGet(prev.nodes, n)
           /\ ~MapHas(nodes, n)
           /\ ~MapHas(nodeRelations, n)
           /\ \A r \in gone :
                 /\ ~MapHas(relations, r)
                 /\ \A i \in 1..Len(nodeRelations) : r \notin SetOf(nodeRelations[i].rels)
           /\ nodes = MapDelete(prev.nodes, n)
           /\ relations = NotIncident(prev.relations, n)
           /\ \A m \in NodeIds :
                 SetOf(RelsOf(nodeRelations, m)) = SetOf(RelsOf(prev.nodeRelations, m)) \ gone

\* the deleted node had a relation with another node, which stays, and a
\* relation not incident to it stays too
C3_Witness ==
    /\ call.op = "deleteNode"
    /\ call.outcome = "return"
    /\ \E i \in 1..Len(prev.relations) :
          /\ prev.relations[i].fromNodeId = call.args[1]
          /\ prev.relations[i].toNodeId # call.args[1]
    /\ relations # <<>>
    /\ Len(nodes) >= 1

----------------------------------------------------------------------------
(* SpecErr: calls that fail, on stores whose file may lag behind the memory *)

MaxErrId == 3

\* name, metadata, flush
ErrAddNodeInputs ==
    {<<NameA, Undefined, TRUE>>, <<NameA, Meta("a", 1), FALSE>>,
     <<Str(<<>>), Undefined, TRUE>>, <<Str(<<" ", " ">>), Undefined, TRUE>>,
     <<Num(7), Undefined, TRUE>>, <<Undefined, Undefined, TRUE>>,
     <<NameA, Null, TRUE>>, <<NameA, Num(7), TRUE>>, <<NameA, Str(<<"m">>), TRUE>>}

ErrAddNode ==
    /\ idCounter < MaxErrId
    /\ \E in \in ErrAddNodeInputs : addNode(in[1], in[2], in[3])

ErrAddRelation ==
    /\ idCounter < MaxErrId
    /\ \E from \in IdInputs, to \in IdInputs, flush \in BOOLEAN :
          addRelation(NameR, from, to, Undefined, flush)

ErrUpdateNode ==
    \E id \in IdInputs : Apply("updateNode", <<id, Renamed>>, updateNode(store, id, Renamed))

ErrUpdateRelation ==
    \E id \in IdInputs :
        Apply("updateRelation", <<id, Renamed>>, updateRelation(store, id, Renamed))

ErrDeleteNode ==
    \E id \in IdInputs : Apply("deleteNode", <<id>>, deleteNode(store, id))

ErrDeleteRelation ==
    \E id \in IdInputs : Apply("deleteRelation", <<id>>, deleteRelation(store, id))

NextErr ==
    \/ ErrAddNode
    \/ ErrAddRelation
    \/ ErrUpdateNode
    \/ ErrUpdateRelation
    \/ ErrDeleteNode
    \/ ErrDeleteRelation

SpecErr == Init /\ [][NextErr]_vars

IsBlank(s) == \A i \in 1..Len(s) : IsSpace(s[i])

NotAName(x) == x.t # "string" \/ IsBlank(x.v)

\* metadata that was passed and is null or no object
NotMetadata(x) == x.t \in {"null", "number", "string", "boolean"}

Stale == disk # flushToDisk(nodes, relations)

\* C4: a create call that fails validation has no effect: addNode with a name
\* that is no string or is empty or blank, or with metadata that is null or no
\* object, and addRelation with a fromNodeId or toNodeId that is no existing
\* node, each throw and leave nodes, relations, the index and the file as they were.
C4_FailedCreateHasNoEffect ==
    /\ (call.op = "addNode" /\ (NotAName(call.args[1]) \/ NotMetadata(call.args[2]))) =>
          (call.outcome = "throw" /\ store = prev)
    /\ (/\ call.op = "addRelation"
        /\ \/ ~MapHas(prev.nodes, call.args[2])
           \/ ~MapHas(prev.nodes, call.args[3])) =>
          (call.outcome = "throw" /\ store = prev)

\* addRelation from an existing node to an id that is no node, asked to flush,
\* while the file lags behind the memory
C4_Witness ==
    /\ call.op = "addRelation"
    /\ MapHas(prev.nodes, call.args[2])
    /\ ~MapHas(prev.nodes, call.args[3])
    /\ call.args[5] = Bool(TRUE)
    /\ call.outcome = "throw"
    /\ Stale

\* C5: updateNode, updateRelation, deleteNode and deleteRelation called with an
\* id that is not in the store throw and leave nodes, relations, the index and
\* the file unchanged.
C5_UnknownIdHasNoEffect ==
    /\ (call.op \in {"updateNode", "deleteNode"} /\ ~MapHas(prev.nodes, call.args[1])) =>
          (call.outcome = "throw" /\ store = prev)
    /\ (/\ call.op \in {"updateRelation", "deleteRelation"}
        /\ ~MapHas(prev.relations, call.args[1])) =>
          (call.outcome = "throw" /\ store = prev)

\* deleteNode with the id of a relation, while the file lags behind the memory
C5_Witness ==
    /\ call.op = "deleteNode"
    /\ MapHas(prev.relations, call.args[1])
    /\ call.outcome = "throw"
    /\ Stale

----------------------------------------------------------------------------
(* SpecUpd: updates of names and metadata *)

MaxUpdId == 2

UpdatesInputs ==
    {Obj(<<(<<"metadata", Meta("a", 1)>>)>>),
     Obj(<<(<<"name", NameB>>)>>),
     Obj(<<(<<"name", NameB>>), (<<"metadata", Meta2("b", 1, "c", 1)>>)>>),
     Obj(<<(<<"id", IdValue(UnknownId)>>), (<<"fromNodeId", IdValue(UnknownId)>>),
           (<<"toNodeId", IdValue(UnknownId)>>), (<<"name", NameS>>)>>)}

UpdAddNode ==
    /\ idCounter < MaxUpdId
    /\ \E metadata \in {Undefined, Meta2("a", 2, "b", 2)} : addNode(NameA, metadata, TRUE)

UpdAddRelation ==
    /\ idCounter < MaxUpdId
    /\ \E from \in NodeIds, to \in NodeIds, metadata \in {Undefined, Meta("b", 2)} :
          addRelation(NameR, from, to, metadata, TRUE)

UpdUpdateNode ==
    \E id \in NodeIds, updates \in UpdatesInputs :
        Apply("updateNode", <<id, updates>>, updateNode(store, id, updates))

UpdUpdateRelation ==
    \E id \in RelationIds, updates \in UpdatesInputs :
        Apply("updateRelation", <<id, updates>>, updateRelation(store, id, updates))

NextUpd == UpdAddNode \/ UpdAddRelation \/ UpdUpdateNode \/ UpdUpdateRelation

SpecUpd == Init /\ [][NextUpd]_vars

\* the entity that an update call names, in the store m
Target(m) == MapGet(m, call.args[1])

MergedInto(old, new, updates) ==
    LET m == Get(updates, "metadata")
    IN /\ \A k \in Keys(m) : Get(new.metadata, k) = Get(m, k)
       /\ \A k \in Keys(old.metadata) \ Keys(m) : Get(new.metadata, k) = Get(old.metadata, k)
       /\ Keys(new.metadata) = Keys(old.metadata) \cup Keys(m)
       /\ new.name = IF Get(updates, "name") # Undefined
                     THEN Get(updates, "name") ELSE old.name

\* C6: updateNode(id, {metadata: m}) and updateRelation(id, {metadata: m}) on an
\* existing entity leave its metadata the shallow merge of the old metadata with
\* m: every key of m has m's value, every old key not in m keeps its value and
\* no old key is dropped; the name is updates.name when given and kept otherwise.
C6_UpdateMergesMetadata ==
    /\ (call.op = "updateNode" /\ MapHas(prev.nodes, call.args[1])) =>
          /\ call.outcome = "return"
          /\ MapHas(nodes, call.args[1])
          /\ call.ret = Target(nodes)
          /\ MergedInto(Target(prev.nodes), Target(nodes), call.args[2])
    /\ (call.op = "updateRelation" /\ MapHas(prev.relations, call.args[1])) =>
          /\ call.outcome = "return"
          /\ MapHas(relations, call.args[1])
          /\ call.ret = Target(relations)
          /\ MergedInto(Target(prev.relations), Target(relations), call.args[2])

\* an update without a name, of a key the node had with another value, on a
\* node with a second key
C6_Witness ==
    /\ call.op = "updateNode"
    /\ call.outcome = "return"
    /\ Get(call.args[2], "name") = Undefined
    /\ Get(Target(prev.nodes).metadata, "a") = Num(2)
    /\ Get(call.args[2], "metadata") = Meta("a", 1)
    /\ Target(nodes).metadata = Meta2("a", 1, "b", 2)

----------------------------------------------------------------------------
(* SpecTrav: traversals of graphs built node by node, then relation by      *)
(* relation.  A query leaves the store as it is, so a run is followed no     *)
(* further once it has made one.                                             *)

MaxTravNodes == 3
MaxTravRelations == 3

Query(op, args, r) ==
    /\ prev' = store
    /\ call' = IF r.threw THEN Threw(op, args, r.v) ELSE Returned(op, args, r.v)
    /\ UNCHANGED <<nodes, relations, nodeRelations, idCounter, now, disk>>

QueryOps == {"traverseFromNode", "traverseFromRelation", "traverseFromMetadata",
             "searchAndTraverse",
             "searchNodes", "searchRelations", "searchNodesByCosineSimilarity",
             "searchRelationsByCosineSimilarity"}

Building == call.op \notin QueryOps

Outgoing == Arr(<<"outgoing">>)
Incoming == Arr(<<"incoming">>)

TraverseOptions ==
    {Undefined,
     Obj(<<(<<"maxDepth", Num(0)>>)>>),
     Obj(<<(<<"maxDepth", Num(1)>>)>>),
     Obj(<<(<<"maxDepth", Num(2)>>), (<<"directions", Outgoing>>)>>),
     Obj(<<(<<"directions", Outgoing>>)>>),
     Obj(<<(<<"maxDepth", Infinity>>), (<<"directions", Incoming>>)>>),
     Obj(<<(<<"directions", Arr(<<>>)>>)>>),
     Obj(<<(<<"relationName", NameR>>)>>),
     Obj(<<(<<"maxDepth", Num(1)>>), (<<"directions", Incoming>>), (<<"relationName", NameS>>)>>)}

MetadataConditions ==
    {Meta("a", 1),
     Obj(<<(<<"a", Obj(<<(<<"ne", Num(1)>>)>>)>>)>>)}

TravAddNode ==
    /\ Building
    /\ Len(nodes) < MaxTravNodes
    /\ relations = <<>>
    /\ addNode(NameA, Undefined, FALSE)

TravAddRelation ==
    /\ Building
    /\ Len(relations) < MaxTravRelations
    /\ \E from \in NodeIds, to \in NodeIds,
          kind \in {<<NameR, Undefined>>, <<NameS, Meta("a", 1)>>} :
          addRelation(kind[1], from, to, kind[2], FALSE)

TravTraverseFromNode ==
    /\ Building
    /\ \E start \in NodeIds \cup {UnknownId}, options \in TraverseOptions :
          Query("traverseFromNode", <<start, options>>, traverseFromNode(store, start, options))

TravTraverseFromRelation ==
    /\ Building
    /\ \E start \in RelationIds \cup {UnknownId}, maxDepth \in {Undefined, Num(0), Num(1)} :
          Query("traverseFromRelation", <<start, maxDepth>>,
                traverseFromRelation(store, start, maxDepth))

TravTraverseFromMetadata ==
    /\ Building
    /\ \E conditions \in MetadataConditions, maxDepth \in {Undefined, Num(1)} :
          Query("traverseFromMetadata", <<conditions, maxDepth>>,
                traverseFromMetadata(store, conditions, maxDepth))

NextTrav ==
    \/ TravAddNode
    \/ TravAddRelation
    \/ TravTraverseFromNode
    \/ TravTraverseFromRelation
    \/ TravTraverseFromMetadata

SpecTrav == Init /\ [][NextTrav]_vars

\* the relation ids of a list of triplets, in order
RelationIdsOf(triplets) == [i \in 1..Len(triplets) |-> triplets[i][2].id]

\* three nodes a, b, c and three relations a -> b, b -> c, c -> a
IsRing ==
    /\ Len(nodes) = 3
    /\ Len(relations) = 3
    /\ \E a, b, c \in NodeIds :
          /\ a # b /\ b # c /\ a # c
          /\ {<<relations[i].fromNodeId, relations[i].toNodeId>> : i \in 1..3}
                = {<<a, b>>, <<b, c>>, <<c, a>>}

\* C7: on every graph, cyclic ones, self-loops and parallel relations included,
\* and for every maxDepth, directions and relationName, traverseFromNode
\* terminates (its inner function is called at most once per relation, and once
\* for the start) and no relation id occurs in two of the triplets returned; on
\* the ring a -> b, b -> c, c -> a with maxDepth unbounded and directions =
\* [outgoing] it returns exactly 3 triplets.
C7_TraverseFromNodeTerminates ==
    (call.op = "traverseFromNode" /\ call.args[2].t \in {"undefined", "object"}) =>
        LET o == call.args[2]
        IN /\ call.outcome = "return"
           /\ IsSet(RelationIdsOf(call.ret))
           /\ traverseFromNodeRun(store, call.args[1], o).v.calls <= Len(relations) + 1
           /\ (/\ IsRing
               /\ Option(o, "maxDepth", Infinity) = Infinity
               /\ Get(o, "directions") = Outgoing
               /\ Get(o, "relationName") = Undefined
               /\ MapHas(nodes, call.args[1])) => Len(call.ret) = 3

\* the three triplets of the ring, from one of its nodes
C7_Witness ==
    /\ call.op = "traverseFromNode"
    /\ IsRing
    /\ call.args[2] = Obj(<<(<<"directions", Outgoing>>)>>)
    /\ call.outcome = "return"
    /\ Len(call.ret) = 3

\* the triplets of every traversal that traverseFromMetadata is to unite
RECURSIVE TripletsFrom(_, _, _)
TripletsFrom(Walk(_, _, _), found, maxDepth) ==
    IF found = <<>> THEN {}
    ELSE LET results == Walk(store, Head(found).id, maxDepth)
         IN {JsonTriplet(results.v[i]) : i \in 1..Len(results.v)}
            \cup TripletsFrom(Walk, Tail(found), maxDepth)

\* C10: traverseFromMetadata(conditions) with maxDepth left out returns, on every
\* store and for every conditions, also when a node matches, and what it
\* returns is the union of the triplets of traverseFromNode from every matching
\* node and of traverseFromRelation from every matching relation, none of them
\* twice.
C10_TraverseFromMetadataReturnsUnion ==
    (call.op = "traverseFromMetadata" /\ call.args[2] = Undefined) =>
        LET conditions == Obj(<<(<<"metadata", call.args[1]>>)>>)
        IN /\ call.outcome = "return"
           /\ IsSet(call.ret)
           /\ SetOf(call.ret) =
                 TripletsFrom(traverseFromNode, searchNodes(store, conditions).v, Undefined)
                 \cup TripletsFrom(traverseFromRelation,
                                   searchRelations(store, conditions).v, Undefined)

----------------------------------------------------------------------------
(* SpecSearch: searches over entities with and without the metadata asked for *)

MaxSearchId == 3

Embedding(xs) == Obj(<<(<<"embedding", Arr(xs)>>)>>)

EntityMetadata ==
    {Undefined, Meta("a", 1), Meta("a", 2),
     Embedding(<<1, 0>>), Embedding(<<1, 1>>), Embedding(<<0, 1>>), Embedding(<<1>>)}

Compare(key, op, n) == Obj(<<(<<"metadata", Obj(<<(<<key, Obj(<<(<<op, Num(n)>>)>>)>>)>>)>>)>>)

Similar(xs) == Obj(<<(<<"queryEmbedding", Arr(xs)>>)>>)

SearchConditions ==
    {Undefined,
     Compare("a", "gt", 1), Compare("a", "gte", 2), Compare("a", "lt", 2),
     Compare("a", "lte", 1), Compare("a", "eq", 1),
     Obj(<<(<<"metadata", Meta("a", 1)>>)>>),
     Obj(<<(<<"cosineSimilarity", Similar(<<1, 0>>)>>)>>),
     Obj(<<(<<"metadata",
              Obj(<<(<<"embedding", Obj(<<(<<"cosineSimilarity", Similar(<<1, 0>>)>>)>>)>>)>>)>>)>>)}

RankInputs ==
    {<<Arr(<<1, 0>>), Undefined>>,
     <<Arr(<<1, 0>>), Obj(<<(<<"threshold", Num(0)>>), (<<"limit", Num(1)>>)>>)>>,
     <<Arr(<<1, 0>>), Obj(<<(<<"threshold", Num(0)>>), (<<"limit", Num(2)>>)>>)>>,
     <<Arr(<<1, 0>>), Obj(<<(<<"threshold", Num(1)>>)>>)>>,
     <<Arr(<<>>), Undefined>>}

SearchAddNode ==
    /\ Building
    /\ idCounter < MaxSearchId
    /\ \E metadata \in EntityMetadata : addNode(NameA, metadata, TRUE)

SearchAddRelation ==
    /\ Building
    /\ idCounter < MaxSearchId
    /\ \E from \in NodeIds, to \in NodeIds,
          metadata \in {Undefined, Meta("a", 1), Embedding(<<1, 0>>), Embedding(<<1>>)} :
          addRelation(NameR, from, to, metadata, TRUE)

SearchNodes ==
    /\ Building
    /\ \E conditions \in SearchConditions :
          Query("searchNodes", <<conditions>>, searchNodes(store, conditions))

SearchRelations ==
    /\ Building
    /\ \E conditions \in SearchConditions :
          Query("searchRelations", <<conditions>>, searchRelations(store, conditions))

SearchNodesByCosineSimilarity ==
    /\ Building
    /\ \E in \in RankInputs :
          Query("searchNodesByCosineSimilarity", in,
                searchNodesByCosineSimilarity(store, in[1], in[2]))

SearchRelationsByCosineSimilarity ==
    /\ Building
    /\ \E in \in RankInputs :
          Query("searchRelationsByCosineSimilarity", in,
                searchRelationsByCosineSimilarity(store, in[1], in[2]))

NextSearch ==
    \/ SearchAddNode
    \/ SearchAddRelation
    \/ SearchNodes
    \/ SearchRelations
    \/ SearchNodesByCosineSimilarity
    \/ SearchRelationsByCosineSimilarity

SpecSearch == Init /\ [][NextSearch]_vars

Comparisons == {"gt", "gte", "lt", "lte"}

\* the metadata keys that the conditions of a search compare with gt, gte, lt or lte
ComparedKeys(conditions) ==
    LET md == Get(conditions, "metadata")
    IN {k \in Keys(md) : Keys(Get(md, k)) \cap Comparisons # {}}

\* C8: in searchNodes and searchRelations a metadata condition {k: {gt|gte|lt|lte:
\* x}} is false for an entity whose metadata has no key k: the search returns no
\* such entity, and throws nothing.
C8_MissingKeyFailsComparison ==
    (call.op \in {"searchNodes", "searchRelations"} /\ ComparedKeys(call.args[1]) # {}) =>
        /\ call.outcome = "return"
        /\ \A i \in 1..Len(call.ret) :
              ComparedKeys(call.args[1]) \subseteq Keys(call.ret[i].metadata)

\* the Map that a search call reads
Searched ==
    IF call.op \in {"searchNodes", "searchNodesByCosineSimilarity"} THEN nodes ELSE relations

\* the query embedding of a search call and the metadata key it is compared with
QueryOf ==
    CASE call.op \in {"searchNodesByCosineSimilarity", "searchRelationsByCosineSimilarity"} ->
            [embedding |-> call.args[1], key |-> "embedding"]
      [] Get(call.args[1], "cosineSimilarity") # Undefined ->
            [embedding |-> Get(Get(call.args[1], "cosineSimilarity"), "queryEmbedding"),
             key |-> "embedding"]
      [] Get(Get(Get(Get(call.args[1], "metadata"), "embedding"), "cosineSimilarity"),
             "queryEmbedding") # Undefined ->
            [embedding |-> Get(Get(Get(Get(call.args[1], "metadata"), "embedding"),
                                   "cosineSimilarity"), "queryEmbedding"),
             key |-> "embedding"]
      [] OTHER -> [embedding |-> Undefined, key |-> "embedding"]

\* the entities whose stored embedding is as long as the query embedding, or
\* that have none
Comparable(m, q) ==
    SelectSeq(m, LAMBDA e : ~IsArray(Get(e.metadata, q.key))
                            \/ Len(Get(e.metadata, q.key).v) = Len(q.embedding.v))

\* C9: a search with a query embedding throws for no stored entity: an entity
\* whose stored embedding has another length than the query embedding is no
\* match, and the search returns what it returns on the other entities.
C9_MismatchedEmbeddingIsNoMatch ==
    (/\ call.op \in {"searchNodes", "searchRelations", "searchNodesByCosineSimilarity",
                     "searchRelationsByCosineSimilarity"}
     /\ IsArray(QueryOf.embedding)
     /\ QueryOf.embedding.v # <<>>) =>
        /\ call.outcome = "return"
        /\ call.ret =
              IF call.op \in {"searchNodes", "searchRelations"}
              THEN SearchLoop(Comparable(Searched, QueryOf), call.args[1], <<>>).v
              ELSE searchByCosineSimilarity(Comparable(Searched, QueryOf),
                        IF call.op = "searchNodesByCosineSimilarity" THEN "node"
                        ELSE "relation",
                        call.args[1], call.args[2]).v

----------------------------------------------------------------------------
(* SpecMeta: traverseFromMetadata on stores where some nodes match and      *)
(* others do not                                                            *)

MaxMetaNodes == 3
MaxMetaRelations == 2

MetaAddNode ==
    /\ Building
    /\ Len(nodes) < MaxMetaNodes
    /\ relations = <<>>
    /\ \E metadata \in {Undefined, Meta("a", 1)} : addNode(NameA, metadata, FALSE)

MetaAddRelation ==
    /\ Building
    /\ Len(relations) < MaxMetaRelations
    /\ \E from \in NodeIds, to \in NodeIds : addRelation(NameR, from, to, Undefined, FALSE)

MetaTraverseFromMetadata ==
    /\ Building
    /\ \E maxDepth \in {Undefined, Num(0), Num(1)} :
          Query("traverseFromMetadata", <<Meta("a", 1), maxDepth>>,
                traverseFromMetadata(store, Meta("a", 1), maxDepth))

NextMeta ==
    \/ MetaAddNode
    \/ MetaAddRelation
    \/ MetaTraverseFromMetadata

SpecMeta == Init /\ [][NextMeta]_vars

\* the triplets of traverseFromNode(n, {maxDepth: k}) from every node n of found
RECURSIVE NodeTripletsWithin(_, _)
NodeTripletsWithin(found, k) ==
    IF found = <<>> THEN {}
    ELSE LET results == traverseFromNode(store, Head(found).id,
                                         Obj(<<(<<"maxDepth", k>>)>>))
         IN {JsonTriplet(results.v[i]) : i \in 1..Len(results.v)}
            \cup NodeTripletsWithin(Tail(found), k)

\* the triplets of traverseFromRelation(r, k) from every relation r of found
RECURSIVE RelationTripletsWithin(_, _)
RelationTripletsWithin(found, k) ==
    IF found = <<>> THEN {}
    ELSE LET results == traverseFromRelation(store, Head(found).id, k)
         IN {JsonTriplet(results.v[i]) : i \in 1..Len(results.v)}
            \cup RelationTripletsWithin(Tail(found), k)

\* C11: traverseFromMetadata(conditions, k) with a number k bounds the walks
\* from the matching nodes as it bounds those from the matching relations: it
\* returns the triplets of traverseFromNode(n, {maxDepth: k}) for the matching
\* nodes n and those of traverseFromRelation(r, k) for the matching relations r.
C11_MaxDepthBoundsNodeWalks ==
    (call.op = "traverseFromMetadata" /\ call.args[2].t = "number") =>
        LET conditions == Obj(<<(<<"metadata", call.args[1]>>)>>)
        IN /\ call.outcome = "return"
           /\ SetOf(call.ret) =
                 NodeTripletsWithin(searchNodes(store, conditions).v, call.args[2])
                 \cup RelationTripletsWithin(searchRelations(store, conditions).v,
                                             call.args[2])

----------------------------------------------------------------------------
(* Properties of SpecTrav: the reach and the shape of traverseFromNode *)

\* the relations that one hop from a node of ns follows under the options o
HopsFrom(ns, o) ==
    {i \in 1..Len(relations) :
        /\ Truthy(o.relationName) => relations[i].name = o.relationName
        /\ \/ relations[i].fromNodeId \in ns /\ Includes(o.directions, "outgoing")
           \/ relations[i].toNodeId \in ns /\ Includes(o.directions, "incoming")}

\* the ids of the relations on a walk of at most k relations from a node of ns
RECURSIVE RelationsWithin(_, _, _)
RelationsWithin(ns, o, k) ==
    IF k = 0 THEN {}
    ELSE LET hops == HopsFrom(ns, o)
         IN {relations[i].id : i \in hops}
            \cup RelationsWithin(ns \cup {relations[i].fromNodeId : i \in hops}
                                    \cup {relations[i].toNodeId : i \in hops}, o, k - 1)

\* C12: traverseFromNode(start, {maxDepth: k}) walks at most k hops out: the
\* relation of every triplet returned is on a walk of at most k relations that
\* begins at start.
C12_MaxDepthBoundsHops ==
    (/\ call.op = "traverseFromNode"
     /\ call.args[2].t = "object"
     /\ Get(call.args[2], "maxDepth").t = "number") =>
        LET o == [directions |-> Option(call.args[2], "directions", BothDirections),
                  relationName |-> Option(call.args[2], "relationName", Null)]
        IN /\ call.outcome = "return"
           /\ \A i \in 1..Len(call.ret) :
                 call.ret[i][2].id \in
                    RelationsWithin({call.args[1]}, o, Get(call.args[2], "maxDepth").v)

\* C13: every triplet that traverseFromNode returns, whatever the directions,
\* is [fromNode, relation, toNode]: its first element is the node
\* relation.fromNodeId and its third the node relation.toNodeId.
C13_TripletsRunFromTo ==
    (call.op = "traverseFromNode" /\ call.outcome = "return") =>
        \A i \in 1..Len(call.ret) :
           /\ call.ret[i][1].id = call.ret[i][2].fromNodeId
           /\ call.ret[i][3].id = call.ret[i][2].toNodeId

\* the options of a similarity search as its destructuring reads them
RankOptions ==
    LET opts == IF call.args[2] = Undefined THEN Obj(<<>>) ELSE call.args[2]
    IN [embeddingKey |-> IF Get(opts, "embeddingKey") = Undefined THEN "embedding"
                         ELSE Get(opts, "embeddingKey").v,
        threshold |-> ThresholdOf(opts),
        limit |-> IF Get(opts, "limit") = Undefined THEN 10 ELSE Get(opts, "limit").v]

\* the entity of an entry of the result of a similarity search
Entity(entry) ==
    IF call.op = "searchNodesByCosineSimilarity" THEN entry.node ELSE entry.relation

\* the similarity of a stored entity that has an embedding as long as the query
SimilarityOf(e) == cosineSimilarity(call.args[1], Get(e.metadata, RankOptions.embeddingKey)).v

----------------------------------------------------------------------------
(* SpecRag: searchAndTraverse on stores whose nodes and relations have      *)
(* embeddings of the length of the query                                    *)

MaxRagNodes == 2
MaxRagRelations == 2

RagQuery == Arr(<<1, 0>>)

RagOptions ==
    {Undefined,
     Obj(<<(<<"limit", Num(1)>>)>>),
     Obj(<<(<<"limit", Num(2)>>)>>),
     Obj(<<(<<"limit", Num(2)>>), (<<"threshold", Num(1)>>),
           (<<"nodeFilters", Obj(<<(<<"metadata", Meta("a", 1)>>)>>)>>)>>),
     Obj(<<(<<"searchRelations", Bool(FALSE)>>), (<<"limit", Num(1)>>)>>),
     Obj(<<(<<"hops", Num(0)>>)>>),
     Obj(<<(<<"hops", Num(0)>>), (<<"endOnNode", Bool(TRUE)>>)>>),
     Obj(<<(<<"hops", Num(1)>>), (<<"directions", Outgoing>>)>>),
     Obj(<<(<<"hops", Num(1)>>), (<<"endOnNode", Bool(TRUE)>>)>>),
     Obj(<<(<<"hops", Num(2)>>), (<<"endOnNode", Bool(TRUE)>>)>>)}

RagAddNode ==
    /\ Building
    /\ Len(nodes) < MaxRagNodes
    /\ relations = <<>>
    /\ \E metadata \in {Undefined, Embedding(<<1, 0>>), Embedding(<<1, 1>>),
                        Obj(<<(<<"embedding", Arr(<<1, 0>>)>>), (<<"a", Num(1)>>)>>)} :
          addNode(NameA, metadata, FALSE)

RagAddRelation ==
    /\ Building
    /\ Len(relations) < MaxRagRelations
    /\ \E from \in NodeIds, to \in NodeIds, metadata \in {Undefined, Embedding(<<1, 0>>)} :
          addRelation(NameR, from, to, metadata, FALSE)

RagSearchAndTraverse ==
    /\ Building
    /\ \E options \in RagOptions :
          Query("searchAndTraverse", <<RagQuery, options>>,
                searchAndTraverse(store, RagQuery, options))

NextRag ==
    \/ RagAddNode
    \/ RagAddRelation
    \/ RagSearchAndTraverse

SpecRag == Init /\ [][NextRag]_vars

\* the options of a searchAndTraverse call
RagOpts == IF call.args[2] = Undefined THEN Obj(<<>>) ELSE call.args[2]

\* the searched entities of a type that have similarity >= threshold and pass
\* the filters of their type, each with its type and similarity
QualifyingOf(m, type, searched, filters) ==
    {[type |-> type, entity |-> m[i],
      similarity |-> cosineSimilarity(call.args[1], Get(m[i].metadata, "embedding")).v] :
        i \in {j \in 1..Len(m) :
                 /\ Truthy(Option(RagOpts, searched, Bool(TRUE)))
                 /\ IsArray(Get(m[j].metadata, "embedding"))
                 /\ ~SimLess(cosineSimilarity(call.args[1],
                                              Get(m[j].metadata, "embedding")).v,
                             ThresholdOf(RagOpts))
                 /\ matchesConditions(m[j], Option(RagOpts, filters, Obj(<<>>))).v}}

Qualifying ==
    QualifyingOf(nodes, "node", "searchNodes", "nodeFilters")
    \cup QualifyingOf(relations, "relation", "searchRelations", "relationFilters")

Root(i) == [type |-> call.ret[i].type, entity |-> call.ret[i].entity,
            similarity |-> call.ret[i].similarity]

\* C15: the roots of the trees of searchAndTraverse are the min(limit, m)
\* entities of highest similarity among the m searched entities that have
\* similarity >= threshold and pass nodeFilters / relationFilters.
C15_RootsAreTopMatches ==
    call.op = "searchAndTraverse" =>
        LET limit == Option(RagOpts, "limit", Num(10)).v
            roots == {Root(i) : i \in 1..Len(call.ret)}
        IN /\ call.outcome = "return"
           /\ Len(call.ret) = IF Cardinality(Qualifying) < limit
                              THEN Cardinality(Qualifying) ELSE limit
           /\ Cardinality(roots) = Len(call.ret)
           /\ roots \subseteq Qualifying
           /\ \A q \in Qualifying \ roots :
                 \A r \in roots : ~SimLess(r.similarity, q.similarity)

\* C16: with hops = 0, searchAndTraverse returns the seeds only, whatever the
\* other options (endOnNode = true too): a node seed has no outgoingRelations
\* and no incomingRelations, a relation seed has no fromNode and no toNode.
C16_NoHopsReturnsSeedsOnly ==
    (call.op = "searchAndTraverse" /\ Get(RagOpts, "hops") = Num(0)) =>
        /\ call.outcome = "return"
        /\ \A i \in 1..Len(call.ret) :
              IF call.ret[i].type = "node"
              THEN /\ call.ret[i].outgoingRelations = <<>>
                   /\ call.ret[i].incomingRelations = <<>>
              ELSE /\ call.ret[i].fromNode = Null
                   /\ call.ret[i].toNode = Null

\* the entities of a tree with their depths: for a node the relations listed
\* under it, for every entity whether it has children
RECURSIVE Occurrences(_, _)
RECURSIVE OccurrencesOfAll(_, _)
Occurrences(x, depth) ==
    IF x = Null THEN <<>>
    ELSE IF x.type = "node"
    THEN LET listed == x.outgoingRelations \o x.incomingRelations
         IN <<[type |-> "node", id |-> x.entity.id, depth |-> depth,
               listed |-> {listed[i].entity.id : i \in 1..Len(listed)},
               expanded |-> listed # <<>>]>>
            \o OccurrencesOfAll(listed, depth + 1)
    ELSE <<[type |-> "relation", id |-> x.entity.id, depth |-> depth, listed |-> {},
            expanded |-> x.fromNode # Null \/ x.toNode # Null]>>
         \o Occurrences(x.fromNode, depth + 1) \o Occurrences(x.toNode, depth + 1)

OccurrencesOfAll(xs, depth) ==
    IF xs = <<>> THEN <<>>
    ELSE Occurrences(Head(xs), depth) \o OccurrencesOfAll(Tail(xs), depth)

\* the relations of a node that the directions let a tree follow
Followed(nodeId, directions) ==
    {relations[i].id : i \in {j \in 1..Len(relations) :
        \/ relations[j].fromNodeId = nodeId /\ Includes(directions, "outgoing")
        \/ relations[j].toNodeId = nodeId /\ Includes(directions, "incoming")}}

\* C17: in one tree of searchAndTraverse no entity is expanded twice, and an
\* entity reached again within the hop bound is not left out but is a leaf
\* there: a node expanded below the hop bound lists every relation that the
\* directions let it follow, those already expanded elsewhere in the tree too.
C17_RevisitedEntityIsLeaf ==
    (call.op = "searchAndTraverse" /\ call.outcome = "return") =>
        \A t \in 1..Len(call.ret) :
           LET occ == Occurrences(call.ret[t], 0)
               hops == Option(RagOpts, "hops", Num(3)).v
               directions == Option(RagOpts, "directions", BothDirections)
               Same(i) == {j \in 1..Len(occ) : occ[j].type = occ[i].type /\ occ[j].id = occ[i].id}
           IN \A i \in 1..Len(occ) :
                 /\ occ[i].expanded => \A j \in Same(i) \ {i} : ~occ[j].expanded
                 /\ (/\ occ[i].type = "node"
                     /\ occ[i].depth < hops
                     /\ Same(i) = {i}) =>
                       Followed(occ[i].id, directions) \subseteq occ[i].listed

----------------------------------------------------------------------------
(* SpecPort: snapshots, out of a store every mutation has worked on and into a store *)

MaxPortId == 4

\* entities of snapshots written elsewhere
PortNode1 == [id |-> <<1, 0>>, name |-> NameA, metadata |-> Obj(<<>>)]
PortNode2 == [id |-> <<1, 1>>, name |-> NameB, metadata |-> Meta("a", 1)]
PortRelation == [id |-> <<1, 2>>, name |-> NameR, fromNodeId |-> <<1, 0>>,
                 toNodeId |-> <<1, 1>>, metadata |-> Obj(<<>>)]

Snapshot(ns, rs) == Obj(<<(<<"nodes", Arr(ns)>>), (<<"relations", Arr(rs)>>)>>)

\* the last one holds a relation whose target node is not among its nodes
Snapshots ==
    {Obj(<<>>),
     Snapshot(<<PortNode1>>, <<>>),
     Snapshot(<<PortNode1, PortNode2>>, <<PortRelation>>),
     Snapshot(<<PortNode1>>, <<PortRelation>>)}

Ported == call.op \in {"importData", "new.importData"}

PortAddNode ==
    /\ ~Ported
    /\ idCounter < MaxPortId
    /\ \E metadata \in {Undefined, Meta("a", 1)} : addNode(NameA, metadata, TRUE)

PortAddRelation ==
    /\ ~Ported
    /\ idCounter < MaxPortId
    /\ \E from \in NodeIds, to \in NodeIds : addRelation(NameR, from, to, Undefined, TRUE)

PortUpdateNode ==
    /\ ~Ported
    /\ \E id \in NodeIds : Apply("updateNode", <<id, Renamed>>, updateNode(store, id, Renamed))

PortDeleteNode ==
    /\ ~Ported
    /\ \E id \in NodeIds : Apply("deleteNode", <<id>>, deleteNode(store, id))

PortDeleteRelation ==
    /\ ~Ported
    /\ \E id \in RelationIds : Apply("deleteRelation", <<id>>, deleteRelation(store, id))

\* this.importData(data)
PortImportData ==
    /\ ~Ported
    /\ \E data \in Snapshots : Apply("importData", <<data>>, importData(store, data))

\* B = new TinyGraphDB(a path without a file); B.importData(A.exportData()): from here on
\* the variables hold B, and prev holds A
PortRoundTrip ==
    /\ ~Ported
    /\ LET B == [nodes |-> <<>>, relations |-> <<>>, nodeRelations |-> <<>>, disk |-> NoFile]
           r == importData(B, exportData(store))
       IN /\ prev' = store
          /\ nodes' = r.g.nodes
          /\ relations' = r.g.relations
          /\ nodeRelations' = r.g.nodeRelations
          /\ disk' = r.g.disk
          /\ idCounter' = 0
          /\ call' = IF r.threw THEN Threw("new.importData", <<exportData(store)>>, r.v)
                     ELSE Returned("new.importData", <<exportData(store)>>, r.v)
          /\ UNCHANGED now

NextPort ==
    \/ PortAddNode
    \/ PortAddRelation
    \/ PortUpdateNode
    \/ PortDeleteNode
    \/ PortDeleteRelation
    \/ PortImportData
    \/ PortRoundTrip

SpecPort == Init /\ [][NextPort]_vars

\* C18: importData of A.exportData() into a new empty store B returns and leaves B with
\* the nodes, the relations and the adjacency index of A, A being any store the
\* create, update and delete operations lead to
C18_RoundTrip ==
    call.op = "new.importData" =>
        /\ call.outcome = "return"
        /\ Len(nodes) = Len(prev.nodes) /\ Len(relations) = Len(prev.relations)
        /\ SetOf(nodes) = SetOf(prev.nodes)
        /\ SetOf(relations) = SetOf(prev.relations)
        /\ SameIndex(nodeRelations, prev.nodeRelations)

\* a round trip of a store that holds two nodes and a relation after a deletion
C18_Witness ==
    /\ call.op = "new.importData"
    /\ Len(prev.nodes) >= 2
    /\ Len(prev.relations) >= 1
    /\ Len(prev.nodes) + Len(prev.relations) < MaxPortId
    /\ \E i \in 1..Len(prev.nodes) : prev.nodes[i].name = NameB

EntitiesOf(d, field) == IF Get(d, field) = Undefined THEN {} ELSE SetOf(Get(d, field).v)

\* C19: importData(d) returns and leaves the store with exactly the nodes and relations
\* of d, an index that has every node of d as a key and lists the relations at each
\* node, and a file that holds the snapshot, also when a relation of d names a node
\* that is not in d
C19_ImportReplaces ==
    call.op = "importData" =>
        LET d == call.args[1]
        IN /\ call.outcome = "return"
           /\ SetOf(nodes) = EntitiesOf(d, "nodes")
           /\ SetOf(relations) = EntitiesOf(d, "relations")
           /\ MapKeys(nodeRelations) = MapKeys(nodes)
           /\ \A n \in MapKeys(nodes) : SetOf(RelsOf(nodeRelations, n)) = Incident(relations, n)
           /\ disk = flushToDisk(nodes, relations)

----------------------------------------------------------------------------
(* SpecAlias: the objects a caller holds after a call, and what writing to them does *)

MaxAliasId == 3

\* getNode and getRelation: the Map's value under the id, or undefined
getNode(g, nodeId) == IF MapHas(g.nodes, nodeId) THEN Ok(MapGet(g.nodes, nodeId)) ELSE Ok(Undefined)

getRelation(g, relationId) ==
    IF MapHas(g.relations, relationId) THEN Ok(MapGet(g.relations, relationId))
    ELSE Ok(Undefined)

\* whether an object in the caller's hands after the call is the object a Map holds:
\* addNode and addRelation store this._clone(metadata) and return the object they
\* stored, the readers return the Maps' values, and traverseFromMetadata returns what
\* JSON.parse made of its triplets
SharedWithStore(op, held) ==
    CASE held = "metadata argument" -> FALSE
      [] op = "traverseFromMetadata" -> FALSE
      [] OTHER -> TRUE

TripletEntities(triplets) == UNION {{t[1], t[2], t[3]} : t \in SetOf(triplets)}

\* the entity objects the last call handed back
HeldEntities ==
    IF call.outcome # "return" THEN {}
    ELSE CASE call.op \in {"addNode", "addRelation"} -> {call.ret}
           [] call.op = "getNode" ->
                IF MapHas(nodes, call.args[1]) THEN {call.ret} ELSE {}
           [] call.op = "getRelation" ->
                IF MapHas(relations, call.args[1]) THEN {call.ret} ELSE {}
           [] call.op = "searchNodes" -> SetOf(call.ret)
           [] call.op \in {"traverseFromNode", "traverseFromMetadata"} ->
                TripletEntities(call.ret)
           [] call.op = "exportData" ->
                SetOf(Get(call.ret, "nodes").v) \cup SetOf(Get(call.ret, "relations").v)
           [] OTHER -> {}

\* the caller's assignments: entity.name = 's', or entity.metadata.a = 2
Written(entity, field) ==
    IF field = "name" THEN [entity EXCEPT !.name = NameS]
    ELSE [entity EXCEPT !.metadata = Spread(entity.metadata, Meta("a", 2))]

\* the Map after an assignment to the object it holds under the id
WriteThrough(m, id, field) ==
    [i \in 1..Len(m) |-> IF m[i].id = id THEN Written(m[i], field) ELSE m[i]]

\* a run ends with the caller's write
Wrote == call.op \in {"write returned", "write argument"}

AliasAddNode ==
    /\ ~Wrote
    /\ idCounter < MaxAliasId
    /\ addNode(NameA, Meta("a", 1), TRUE)

AliasAddRelation ==
    /\ ~Wrote
    /\ idCounter < MaxAliasId
    /\ \E from \in NodeIds, to \in NodeIds : addRelation(NameR, from, to, Meta("a", 1), TRUE)

AliasGetNode ==
    /\ ~Wrote
    /\ \E id \in NodeIds \cup {UnknownId} : Query("getNode", <<id>>, getNode(store, id))

AliasGetRelation ==
    /\ ~Wrote
    /\ \E id \in RelationIds \cup {UnknownId} :
          Query("getRelation", <<id>>, getRelation(store, id))

AliasSearchNodes ==
    /\ ~Wrote
    /\ LET conditions == Obj(<<(<<"name", NameA>>)>>)
       IN Query("searchNodes", <<conditions>>, searchNodes(store, conditions))

AliasTraverseFromNode ==
    /\ ~Wrote
    /\ \E start \in NodeIds :
          Query("traverseFromNode", <<start, Undefined>>,
                traverseFromNode(store, start, Undefined))

AliasTraverseFromMetadata ==
    /\ ~Wrote
    /\ Query("traverseFromMetadata", <<Meta("a", 1), Num(1)>>,
             traverseFromMetadata(store, Meta("a", 1), Num(1)))

AliasExportData ==
    /\ ~Wrote
    /\ Query("exportData", <<>>, Ok(exportData(store)))

\* the caller writes to an entity the last call handed back
AliasWriteReturned ==
    \E entity \in HeldEntities, field \in {"name", "metadata"} :
        LET shared == SharedWithStore(call.op, "returned entity")
        IN /\ prev' = store
           /\ nodes' = IF shared THEN WriteThrough(nodes, entity.id, field) ELSE nodes
           /\ relations' = IF shared THEN WriteThrough(relations, entity.id, field)
                           ELSE relations
           /\ call' = Returned("write returned", <<call.op, entity.id, field>>, Undefined)
           /\ UNCHANGED <<nodeRelations, idCounter, now, disk>>

\* the caller writes metadata.a = 2 to the metadata object it passed to the last call
AliasWriteArgument ==
    /\ call.op \in {"addNode", "addRelation"}
    /\ call.outcome = "return"
    /\ TypeOf(call.args[IF call.op = "addNode" THEN 2 ELSE 4]) = "object"
    /\ LET shared == SharedWithStore(call.op, "metadata argument")
       IN /\ prev' = store
          /\ nodes' = IF shared THEN WriteThrough(nodes, call.ret.id, "metadata") ELSE nodes
          /\ relations' = IF shared THEN WriteThrough(relations, call.ret.id, "metadata")
                          ELSE relations
          /\ call' = Returned("write argument", <<call.op, call.ret.id>>, Undefined)
          /\ UNCHANGED <<nodeRelations, idCounter, now, disk>>

NextAlias ==
    \/ AliasAddNode
    \/ AliasAddRelation
    \/ AliasGetNode
    \/ AliasGetRelation
    \/ AliasSearchNodes
    \/ AliasTraverseFromNode
    \/ AliasTraverseFromMetadata
    \/ AliasExportData
    \/ AliasWriteReturned
    \/ AliasWriteArgument

SpecAlias == Init /\ [][NextAlias]_vars

\* what getNode(id) and getRelation(id) observe of an entity: its name and its metadata
Observed(g) ==
    [id \in MapKeys(g.nodes) \cup MapKeys(g.relations) |->
        LET e == IF MapHas(g.nodes, id) THEN getNode(g, id).v ELSE getRelation(g, id).v
        IN <<e.name, e.metadata>>]

\* C20: after the caller wrote to the metadata object it had passed to addNode or
\* addRelation, or to an entity that addNode, addRelation, getNode, getRelation,
\* searchNodes, a traversal or exportData had handed back, getNode and getRelation
\* observe the names and metadata they observed before
C20_NoCallerReferenceAliasesStore ==
    Wrote => Observed(store) = Observed(prev)

----------------------------------------------------------------------------
(* SpecDisk: the file and the clock, over mutations, imports and stores opened on the file *)

MaxDiskId == 1
MaxDiskEntities == 4
MaxNow == 2

\* the last call was a mutation that returned after its flushToDisk
Persisting ==
    /\ call.outcome = "return"
    /\ \/ call.op \in {"updateNode", "updateRelation", "deleteNode", "deleteRelation",
                       "importData"}
       \/ call.op = "addNode" /\ call.args[3] = Bool(TRUE)
       \/ call.op = "addRelation" /\ call.args[5] = Bool(TRUE)

DiskAddNode ==
    /\ idCounter < MaxDiskId
    /\ Len(nodes) + Len(relations) < MaxDiskEntities
    /\ \E flush \in BOOLEAN : addNode(NameA, Undefined, flush)

DiskAddRelation ==
    /\ idCounter < MaxDiskId
    /\ Len(nodes) + Len(relations) < MaxDiskEntities
    /\ \E from \in NodeIds, to \in NodeIds : addRelation(NameR, from, to, Undefined, TRUE)

DiskUpdateNode ==
    \E id \in NodeIds : Apply("updateNode", <<id, Renamed>>, updateNode(store, id, Renamed))

DiskUpdateRelation ==
    \E id \in RelationIds :
        Apply("updateRelation", <<id, Renamed>>, updateRelation(store, id, Renamed))

DiskDeleteNode ==
    \E id \in NodeIds : Apply("deleteNode", <<id>>, deleteNode(store, id))

DiskDeleteRelation ==
    \E id \in RelationIds : Apply("deleteRelation", <<id>>, deleteRelation(store, id))

DiskSnapshots ==
    {Snapshot(<<PortNode1>>, <<>>), Snapshot(<<PortNode1, PortNode2>>, <<PortRelation>>)}

DiskImportData ==
    \E data \in DiskSnapshots : Apply("importData", <<data>>, importData(store, data))

\* the clock of Date.now() moves on
DiskTick ==
    /\ now < MaxNow
    /\ now' = now + 1
    /\ UNCHANGED <<nodes, relations, nodeRelations, idCounter, disk, call, prev>>

\* new TinyGraphDB(filePath) on the file of the store, in a later millisecond: from
\* here on the variables hold the new store, and prev holds the one before
DiskOpen ==
    /\ now < MaxNow
    /\ call.op # "new TinyGraphDB"
    /\ LET g == loadFromFile(disk)
       IN /\ prev' = store
          /\ nodes' = g.nodes
          /\ relations' = g.relations
          /\ nodeRelations' = g.nodeRelations
          /\ idCounter' = 0
          /\ now' = now + 1
          /\ call' = Returned("new TinyGraphDB", <<Bool(Persisting)>>, Undefined)
          /\ UNCHANGED disk

NextDisk ==
    \/ DiskAddNode
    \/ DiskAddRelation
    \/ DiskUpdateNode
    \/ DiskUpdateRelation
    \/ DiskDeleteNode
    \/ DiskDeleteRelation
    \/ DiskImportData
    \/ DiskTick
    \/ DiskOpen

SpecDisk == Init /\ [][NextDisk]_vars

\* C21: when a mutation has returned after its flush, the file holds the nodes and the
\* relations of the store, and a store constructed on that file has the same nodes, the
\* same relations and the same adjacency index
C21_FileHoldsTheStore ==
    /\ Persisting =>
          /\ disk.exists
          /\ disk.nodes = nodes
          /\ disk.relations = relations
    /\ (call.op = "new TinyGraphDB" /\ call.args[1] = Bool(TRUE)) =>
          /\ nodes = prev.nodes
          /\ relations = prev.relations
          /\ SameIndex(nodeRelations, prev.nodeRelations)

\* the file after a flushed mutation, and the nodes and the relations of a store
\* constructed on it, without the adjacency index
C21_WithoutTheIndex ==
    /\ Persisting =>
          /\ disk.exists
          /\ disk.nodes = nodes
          /\ disk.relations = relations
    /\ (call.op = "new TinyGraphDB" /\ call.args[1] = Bool(TRUE)) =>
          /\ nodes = prev.nodes
          /\ relations = prev.relations

\* C25: the id that addNode or addRelation assigns is the id of no node and of no
\* relation that the store held when it was called
C25_AssignedIdIsNew ==
    (call.op \in {"addNode", "addRelation"} /\ call.outcome = "return") =>
        call.ret.id \notin MapKeys(prev.nodes) \cup MapKeys(prev.relations)

----------------------------------------------------------------------------
(* SpecFind: searchNodes and searchRelations over names, ids, ends and metadata *)

MaxFindId == 3

IsaacAsimov == Str(<<"I", "s", "a", "a", "c", " ", "A", "s", "i", "m", "o", "v">>)
FrankHerbert == Str(<<"F", "r", "a", "n", "k", " ", "H", "e", "r", "b", "e", "r", "t">>)
Isaac == Str(<<"i", "s", "a", "a", "c">>)

NameContains(s) == Obj(<<(<<"name", Obj(<<(<<"contains", s>>)>>)>>)>>)

\* the conditions that hold no id
FindConditions ==
    {Undefined,
     NameContains(Isaac),
     NameContains(Str(<<"R">>)),
     NameContains(Str(<<>>)),
     Obj(<<(<<"name", FrankHerbert>>)>>),
     Obj(<<(<<"name", RegExp(<<"A", "s">>)>>)>>),
     Obj(<<(<<"name", Obj(<<(<<"contains", Str(<<"A">>)>>)>>)>>), (<<"metadata", Meta("a", 2)>>)>>),
     Obj(<<(<<"metadata", Obj(<<(<<"a", Obj(<<(<<"startsWith", Num(2)>>)>>)>>)>>)>>)>>),
     Compare("a", "gt", 1),
     Compare("a", "eq", 2)}

\* the conditions on an id
FindConditionsOn(id) ==
    {Obj(<<(<<"id", IdValue(id)>>)>>),
     Obj(<<(<<"fromNodeId", IdValue(id)>>)>>),
     Obj(<<(<<"name", NameR>>), (<<"toNodeId", IdValue(id)>>)>>)}

FindAddNode ==
    /\ Building
    /\ idCounter < MaxFindId
    /\ \E name \in {IsaacAsimov, FrankHerbert}, metadata \in {Undefined, Meta("a", 2)} :
          addNode(name, metadata, TRUE)

FindAddRelation ==
    /\ Building
    /\ idCounter < MaxFindId
    /\ \E from \in NodeIds, to \in NodeIds, metadata \in {Undefined, Meta("a", 2)} :
          addRelation(NameR, from, to, metadata, TRUE)

FindSearchNodes ==
    /\ Building
    /\ \E conditions \in FindConditions \cup UNION {FindConditionsOn(id) : id \in NodeIds} :
          Query("searchNodes", <<conditions>>, searchNodes(store, conditions))

FindSearchRelations ==
    /\ Building
    /\ \E conditions \in FindConditions \cup UNION {FindConditionsOn(id) : id \in NodeIds} :
          Query("searchRelations", <<conditions>>, searchRelations(store, conditions))

NextFind == FindAddNode \/ FindAddRelation \/ FindSearchNodes \/ FindSearchRelations

SpecFind == Init /\ [][NextFind]_vars

\* what a condition on one metadata key asks of the value under the key
MetadataHolds(entity, k, condition) ==
    LET has == k \in Keys(entity.metadata)
        value == Get(entity.metadata, k)
    IN IF condition.t # "object" THEN has /\ value = condition
       ELSE \A op \in Keys(condition) :
               LET x == Get(condition, op)
               IN CASE op = "eq" -> has /\ value = x
                    [] op = "gt" -> has /\ value.t = "number" /\ value.v > x.v
                    [] op = "startsWith" -> has /\ startsWith(String(value), String(x))
                    [] OTHER -> FALSE

\* what a condition on the name asks of the name
NameHolds(entity, value) ==
    CASE value.t = "string" -> entity.name = value
      [] value.t = "regexp" -> StringIncludes(entity.name.v, value.v)
      [] OTHER ->
           \E i \in 0..Len(entity.name.v) : \E j \in i..Len(entity.name.v) :
              toLowerCase(SubSeq(entity.name.v, i + 1, j)) = toLowerCase(Get(value, "contains").v)

\* every key of the conditions holds for the entity
Holds(entity, conditions) ==
    \A key \in Keys(conditions) :
        LET value == Get(conditions, key)
        IN CASE key = "id" -> value.v = entity.id
             [] key \in {"fromNodeId", "toNodeId"} -> key \in DOMAIN entity /\ value.v = entity[key]
             [] key = "name" -> NameHolds(entity, value)
             [] key = "metadata" -> \A k \in Keys(value) : MetadataHolds(entity, k, Get(value, k))

\* C22: searchNodes(c) and searchRelations(c) return the stored entities for which
\* every key of c holds, each once, in the order of their insertion; a name condition
\* {contains: s} holds when the name contains s, upper and lower case taken as one
C22_SearchReturnsTheMatches ==
    call.op \in {"searchNodes", "searchRelations"} =>
        /\ call.outcome = "return"
        /\ call.ret = SelectSeq(Searched,
                                LAMBDA e : Holds(e, IF call.args[1] = Undefined THEN Obj(<<>>)
                                                    ELSE call.args[1]))

\* the same, for the searches that compare no metadata value with gt
C22_WithoutComparison ==
    ComparedKeys(IF call.args = <<>> THEN Undefined ELSE call.args[1]) = {}
        => C22_SearchReturnsTheMatches

----------------------------------------------------------------------------
(* Properties of SpecUpd: what an update leaves as it was *)

\* the entities of the Map m other than the one with the id
Others(m, id) == SelectSeq(m, LAMBDA e : e.id # id)

\* the fields of an entity that an update may not touch
Fixed(e) == [k \in DOMAIN e \ {"name", "metadata"} |-> e[k]]

\* C23: updateNode and updateRelation change the name and the metadata of their target
\* and nothing else: the target keeps its id and, a relation, both of its ends, also
\* when updates holds the keys id, fromNodeId and toNodeId; every other node and
\* relation and the adjacency index are as before
C23_UpdateChangesTargetOnly ==
    /\ (call.op = "updateNode" /\ call.outcome = "return") =>
          /\ Fixed(Target(nodes)) = Fixed(Target(prev.nodes))
          /\ [i \in 1..Len(nodes) |-> nodes[i].id] = [i \in 1..Len(prev.nodes) |-> prev.nodes[i].id]
          /\ Others(nodes, call.args[1]) = Others(prev.nodes, call.args[1])
          /\ relations = prev.relations
          /\ nodeRelations = prev.nodeRelations
    /\ (call.op = "updateRelation" /\ call.outcome = "return") =>
          /\ Fixed(Target(relations)) = Fixed(Target(prev.relations))
          /\ [i \in 1..Len(relations) |-> relations[i].id]
                = [i \in 1..Len(prev.relations) |-> prev.relations[i].id]
          /\ Others(relations, call.args[1]) = Others(prev.relations, call.args[1])
          /\ nodes = prev.nodes
          /\ nodeRelations = prev.nodeRelations

\* an update whose updates name another id and other ends has returned on a relation
\* that had been updated before
C23_Witness ==
    /\ call.op = "updateRelation"
    /\ call.outcome = "return"
    /\ Get(call.args[2], "fromNodeId") # Undefined
    /\ Target(relations).name = NameS
    /\ Target(prev.relations).name = NameB

----------------------------------------------------------------------------
(* Properties of SpecRag: trees that end on nodes *)

\* the relation results of a tree
RECURSIVE RelationResults(_)
RelationResults(x) ==
    IF x = Null THEN {}
    ELSE IF x.type = "node"
    THEN LET listed == x.outgoingRelations \o x.incomingRelations
         IN UNION {RelationResults(listed[i]) : i \in 1..Len(listed)}
    ELSE {x} \cup RelationResults(x.fromNode) \cup RelationResults(x.toNode)

\* C24: with endOnNode true every relation result of every tree that
\* searchAndTraverse returns, the root of a tree too and whatever hops is, holds a
\* node result as fromNode and one as toNode
C24_EndOnNodeEndsOnNodes ==
    (/\ call.op = "searchAndTraverse"
     /\ call.outcome = "return"
     /\ Truthy(Get(RagOpts, "endOnNode"))) =>
        \A i \in 1..Len(call.ret) : \A x \in RelationResults(call.ret[i]) :
            /\ x.fromNode # Null /\ x.fromNode.type = "node"
            /\ x.toNode # Null /\ x.toNode.type = "node"

\* a tree from a node with endOnNode true and one hop, whose relation is at the hop
\* bound and holds both of its nodes
C24_Witness ==
    /\ call.op = "searchAndTraverse"
    /\ call.outcome = "return"
    /\ Get(RagOpts, "endOnNode") = Bool(TRUE)
    /\ Get(RagOpts, "hops") = Num(1)
    /\ \E i \in 1..Len(call.ret) :
          /\ call.ret[i].type = "node"
          /\ \E x \in RelationResults(call.ret[i]) : x.toNode # Null

----------------------------------------------------------------------------
(* Properties of SpecTrav: what an unbounded traverseFromNode reaches *)

\* the nodes at the other end of the relations that one hop from a node of ns follows
OtherEnds(ns, o) ==
    {relations[i].toNodeId : i \in {j \in HopsFrom(ns, o) :
        relations[j].fromNodeId \in ns /\ Includes(o.directions, "outgoing")}}
    \cup {relations[i].fromNodeId : i \in {j \in HopsFrom(ns, o) :
        relations[j].toNodeId \in ns /\ Includes(o.directions, "incoming")}}

\* the nodes that chains of at most k such relations reach from ns
RECURSIVE Reached(_, _, _)
Reached(ns, o, k) == IF k = 0 THEN ns ELSE Reached(ns \cup OtherEnds(ns, o), o, k - 1)

\* C28: traverseFromNode(start, {directions, relationName}) without a maxDepth returns
\* one triplet for each relation that passes the relationName filter and has an end,
\* seen from which its direction is in directions, that is start or is reached from
\* start by a chain of such relations, and no other triplet; the first node of every
\* triplet is start or the third node of an earlier triplet
C28_UnboundedTraversalReturnsTheReachable ==
    (/\ call.op = "traverseFromNode"
     /\ call.args[2].t \in {"undefined", "object"}
     /\ Option(call.args[2], "maxDepth", Infinity) = Infinity) =>
        LET o == [directions |-> Option(call.args[2], "directions", BothDirections),
                  relationName |-> Option(call.args[2], "relationName", Null)]
            reached == Reached({call.args[1]}, o, Len(nodes))
        IN /\ call.outcome = "return"
           /\ IsSet(RelationIdsOf(call.ret))
           /\ SetOf(RelationIdsOf(call.ret)) = {relations[i].id : i \in HopsFrom(reached, o)}
           /\ \A i \in 1..Len(call.ret) :
                 \/ call.ret[i][1].id = call.args[1]
                 \/ \E j \in 1..(i - 1) : call.ret[j][3] = call.ret[i][1]

----------------------------------------------------------------------------
(* SpecRel: traverseFromRelation over graphs of up to four relations *)

MaxRelNodes == 3
MaxRelRelations == 4
MaxRelDepth == 2

RelAddNode ==
    /\ Building
    /\ Len(nodes) < MaxRelNodes
    /\ relations = <<>>
    /\ addNode(NameA, Undefined, FALSE)

RelAddRelation ==
    /\ Building
    /\ Len(relations) < MaxRelRelations
    /\ \E from \in NodeIds, to \in NodeIds : addRelation(NameR, from, to, Undefined, FALSE)

RelTraverseFromRelation ==
    /\ Building
    /\ \E start \in RelationIds \cup {UnknownId},
          maxDepth \in {Undefined, Null} \cup {Num(k) : k \in 0..MaxRelDepth} :
          Query("traverseFromRelation", <<start, maxDepth>>,
                traverseFromRelation(store, start, maxDepth))

NextRel == RelAddNode \/ RelAddRelation \/ RelTraverseFromRelation

SpecRel == Init /\ [][NextRel]_vars

\* two relations share an end
Adjacent(r, s) == {r.fromNodeId, r.toNodeId} \cap {s.fromNodeId, s.toNodeId} # {}

\* the ids of the relations joined to one of rs by a chain of at most k relations,
\* each sharing an end with the one before
RECURSIVE Chained(_, _)
Chained(rs, k) ==
    IF k = 0 THEN rs
    ELSE Chained(rs \cup {relations[i].id : i \in {j \in 1..Len(relations) :
                    \E id \in rs : Adjacent(relations[j], MapGet(relations, id))}}, k - 1)

\* the triplet [fromNode, relation, toNode] of a relation
TripletOf(rel) == <<MapGet(nodes, rel.fromNodeId), rel, MapGet(nodes, rel.toNodeId)>>

\* C26: traverseFromRelation(r, null) returns after at most one call of its inner
\* function per pair of a relation and an end of a relation; on a relation r of the
\* store the result holds the triplet [fromNode, relation, toNode] of every relation
\* chained to r, r too, once each, and nothing else; on an unknown id it is empty
C26_TraverseFromRelationReturnsTheConnected ==
    (call.op = "traverseFromRelation" /\ call.args[2] \in {Undefined, Null}) =>
        /\ call.outcome = "return"
        /\ traverseFromRelationRun(store, call.args[1], call.args[2]).calls
              <= 1 + 2 * Len(relations) * Len(relations)
        /\ IsSet(call.ret)
        /\ IF MapHas(relations, call.args[1])
           THEN SetOf(call.ret) =
                   {TripletOf(MapGet(relations, id)) :
                       id \in Chained({call.args[1]}, Len(relations))}
           ELSE call.ret = <<>>

\* a traversal from the last of four relations of which one is not chained to it
C26_Witness ==
    /\ call.op = "traverseFromRelation"
    /\ call.args[2] = Null
    /\ Len(relations) = 4
    /\ call.args[1] = relations[4].id
    /\ Len(call.ret) = 3

\* C27: traverseFromRelation(r, k) with a number k returns a triplet for every relation
\* that a chain of at most k relations, each sharing an end with the one before, joins
\* to r, in whatever order the relations were inserted
C27_MaxDepthReachesEveryRelationWithin ==
    (/\ call.op = "traverseFromRelation"
     /\ call.args[2].t = "number"
     /\ MapHas(relations, call.args[1])) =>
        /\ call.outcome = "return"
        /\ \A id \in Chained({call.args[1]}, call.args[2].v) :
              TripletOf(MapGet(relations, id)) \in SetOf(call.ret)

----------------------------------------------------------------------------
(* SpecName: the names that addNode and the updates leave in the store *)

MaxNameId == 2

\* names for addNode, of which it takes the first only
NameInputs == {NameA, Str(<<>>), Str(<<" ">>), Num(7), Undefined}

\* updates of the name, and one of the metadata alone
NameUpdates ==
    {Obj(<<(<<"name", NameB>>)>>),
     Obj(<<(<<"name", Str(<<>>)>>)>>),
     Obj(<<(<<"name", Num(7)>>)>>),
     Obj(<<(<<"metadata", Meta("a", 1)>>)>>)}

NameAddNode ==
    /\ idCounter < MaxNameId
    /\ \E name \in NameInputs : addNode(name, Undefined, TRUE)

NameUpdateNode ==
    \E id \in NodeIds, updates \in NameUpdates :
        Apply("updateNode", <<id, updates>>, updateNode(store, id, updates))

NameUpdateBySearch ==
    \E updates \in NameUpdates :
        Apply("updateBySearch", <<"node", Obj(<<(<<"name", NameA>>)>>), updates>>,
              updateBySearch(store, "node", Obj(<<(<<"name", NameA>>)>>), updates))

NameDeleteNode ==
    \E id \in NodeIds : Apply("deleteNode", <<id>>, deleteNode(store, id))

NameDeleteBySearch ==
    Apply("deleteBySearch", <<"node", Obj(<<(<<"name", NameB>>)>>)>>,
          deleteBySearch(store, "node", Obj(<<(<<"name", NameB>>)>>)))

NextName ==
    \/ NameAddNode
    \/ NameUpdateNode
    \/ NameUpdateBySearch
    \/ NameDeleteNode
    \/ NameDeleteBySearch

SpecName == Init /\ [][NextName]_vars

\* C29: the name of every stored node is a string with a character that is no space,
\* as addNode demands of the name it is given
C29_StoredNamesAreNonEmptyStrings ==
    \A i \in 1..Len(nodes) : nodes[i].name.t = "string" /\ Trim(nodes[i].name.v) # <<>>

----------------------------------------------------------------------------
(* SpecRead: the reading methods, and the store each of them leaves *)

MaxReadId == 3

\* getAllNodes and getAllRelations: the values of a Map
getAllNodes(g) == Ok(Arr(g.nodes))

getAllRelations(g) == Ok(Arr(g.relations))

\* this.nodeRelations.get(nodeId) || new Set(), with a store in which the new Set is
\* put under the id
connectedRelations_stored(g, nodeId) ==
    [v |-> RelsOf(g.nodeRelations, nodeId),
     g |-> IF MapHas(g.nodeRelations, nodeId) THEN g
           ELSE [g EXCEPT !.nodeRelations = Append(@, [id |-> nodeId, rels |-> <<>>])]]

\* this.nodeRelations.get(nodeId) || new Set(): the Set of the node in the index or a
\* new empty one, which is held by the caller alone
connectedRelations(g, nodeId) == [v |-> RelsOf(g.nodeRelations, nodeId), g |-> g]

\* the forEach of getNeighbors over the relations at the node
RECURSIVE NeighborLoop(_, _, _, _)
NeighborLoop(g, nodeId, relationIds, neighbors) ==
    IF relationIds = <<>> THEN neighbors
    ELSE LET relation == MapGet(g.relations, Head(relationIds))
             isOut == relation.fromNodeId = nodeId
             otherNodeId == IF isOut THEN relation.toNodeId ELSE relation.fromNodeId
         IN NeighborLoop(g, nodeId, Tail(relationIds),
               IF MapHas(g.relations, Head(relationIds)) /\ MapHas(g.nodes, otherNodeId)
               THEN Append(neighbors,
                           [node |-> MapGet(g.nodes, otherNodeId), relation |-> relation,
                            direction |-> IF isOut THEN "outgoing" ELSE "incoming"])
               ELSE neighbors)

getNeighbors(g, nodeId) ==
    LET relationIds == connectedRelations(g, nodeId)
    IN Done(NeighborLoop(relationIds.g, nodeId, relationIds.v, <<>>), relationIds.g)

\* getStats: the sizes of the Maps, and avgDegree as the fraction it is the value of
getStats(g) ==
    Ok([nodeCount |-> Len(g.nodes), relationCount |-> Len(g.relations),
        avgDegree |-> IF Len(g.nodes) > 0
                      THEN [dividend |-> Len(g.relations) * 2, divisor |-> Len(g.nodes)]
                      ELSE [dividend |-> 0, divisor |-> 1]])

\* the end of a method that assigns to no field of the store: its value or its
\* exception, and the store as it found it
Reading(g, r) ==
    CHOOSE read \in {[threw |-> end.threw, v |-> end.v, g |-> g] : end \in {r}} : TRUE

ReadOps ==
    {"getNode", "getRelation", "getAllNodes", "getAllRelations", "getNeighbors", "getStats",
     "exportData"} \cup QueryOps

HasRead == call.op \in ReadOps

ReadAddNode ==
    /\ ~HasRead
    /\ idCounter < MaxReadId
    /\ \E metadata \in {Undefined, Embedding(<<1, 0>>), Embedding(<<1>>)}, flush \in BOOLEAN :
          addNode(NameA, metadata, flush)

ReadAddRelation ==
    /\ ~HasRead
    /\ idCounter < MaxReadId
    /\ \E from \in NodeIds, to \in NodeIds, metadata \in {Undefined, Embedding(<<1, 0>>)} :
          addRelation(NameR, from, to, metadata, TRUE)

ReadGetNode ==
    /\ ~HasRead
    /\ \E id \in IdInputs : Apply("getNode", <<id>>, Reading(store, getNode(store, id)))

ReadGetRelation ==
    /\ ~HasRead
    /\ \E id \in IdInputs : Apply("getRelation", <<id>>, Reading(store, getRelation(store, id)))

ReadGetAllNodes ==
    /\ ~HasRead
    /\ Apply("getAllNodes", <<>>, Reading(store, getAllNodes(store)))

ReadGetAllRelations ==
    /\ ~HasRead
    /\ Apply("getAllRelations", <<>>, Reading(store, getAllRelations(store)))

ReadGetNeighbors ==
    /\ ~HasRead
    /\ \E id \in IdInputs : Apply("getNeighbors", <<id>>, getNeighbors(store, id))

ReadGetStats ==
    /\ ~HasRead
    /\ Apply("getStats", <<>>, Reading(store, getStats(store)))

ReadExportData ==
    /\ ~HasRead
    /\ Apply("exportData", <<>>, Reading(store, Ok(exportData(store))))

ReadConditions == {Undefined, Obj(<<(<<"cosineSimilarity", Similar(<<1, 0>>)>>)>>)}

ReadSearchNodes ==
    /\ ~HasRead
    /\ \E conditions \in ReadConditions :
          Apply("searchNodes", <<conditions>>, Reading(store, searchNodes(store, conditions)))

ReadSearchRelations ==
    /\ ~HasRead
    /\ \E conditions \in ReadConditions :
          Apply("searchRelations", <<conditions>>,
                Reading(store, searchRelations(store, conditions)))

ReadSearchNodesByCosineSimilarity ==
    /\ ~HasRead
    /\ Apply("searchNodesByCosineSimilarity", <<Arr(<<1, 0>>), Undefined>>,
             Reading(store, searchNodesByCosineSimilarity(store, Arr(<<1, 0>>), Undefined)))

ReadSearchRelationsByCosineSimilarity ==
    /\ ~HasRead
    /\ Apply("searchRelationsByCosineSimilarity", <<Arr(<<1, 0>>), Undefined>>,
             Reading(store, searchRelationsByCosineSimilarity(store, Arr(<<1, 0>>), Undefined)))

ReadTraverseFromNode ==
    /\ ~HasRead
    /\ \E start \in IdInputs, options \in {Undefined, Null} :
          Apply("traverseFromNode", <<start, options>>,
                Reading(store, traverseFromNode(store, start, options)))

ReadTraverseFromRelation ==
    /\ ~HasRead
    /\ \E start \in IdInputs :
          Apply("traverseFromRelation", <<start, Undefined>>,
                Reading(store, traverseFromRelation(store, start, Undefined)))

ReadTraverseFromMetadata ==
    /\ ~HasRead
    /\ \E maxDepth \in {Undefined, Num(1)} :
          Apply("traverseFromMetadata", <<Obj(<<>>), maxDepth>>,
                Reading(store, traverseFromMetadata(store, Obj(<<>>), maxDepth)))

ReadSearchAndTraverse ==
    /\ ~HasRead
    /\ \E queryEmbedding \in {Arr(<<1, 0>>), Arr(<<>>)} :
          Apply("searchAndTraverse", <<queryEmbedding, Undefined>>,
                Reading(store, searchAndTraverse(store, queryEmbedding, Undefined)))

NextRead ==
    \/ ReadAddNode
    \/ ReadAddRelation
    \/ ReadGetNode
    \/ ReadGetRelation
    \/ ReadGetAllNodes
    \/ ReadGetAllRelations
    \/ ReadGetNeighbors
    \/ ReadGetStats
    \/ ReadExportData
    \/ ReadSearchNodes
    \/ ReadSearchRelations
    \/ ReadSearchNodesByCosineSimilarity
    \/ ReadSearchRelationsByCosineSimilarity
    \/ ReadTraverseFromNode
    \/ ReadTraverseFromRelation
    \/ ReadTraverseFromMetadata
    \/ ReadSearchAndTraverse

SpecRead == Init /\ [][NextRead]_vars

\* C30: a reading method, whether it returns or throws, leaves the nodes, the
\* relations, the adjacency index and the file as they were
C30_ReadingChangesNothing ==
    HasRead =>
        /\ nodes = prev.nodes
        /\ relations = prev.relations
        /\ nodeRelations = prev.nodeRelations
        /\ disk = prev.disk

\* getNeighbors of an id that the index does not hold has returned, on a store with a
\* relation whose file lags behind
C30_Witness ==
    /\ call.op = "getNeighbors"
    /\ ~MapHas(nodes, call.args[1])
    /\ relations # <<>>
    /\ Len(disk.nodes) < Len(nodes)

\* a reading method has thrown on a store with a relation
C30_Thrown ==
    /\ HasRead
    /\ call.outcome = "throw"
    /\ relations # <<>>
====
